---- MODULE Spec2Model ----
(***************************************************************************)
(* Model of the Atlas map-extraction job (Backend-Atlas/app/tasks.py):     *)
(* the Celery task process_map_extraction, its persistence helpers, the    *)
(* feature sink insert_feature_in_db and the status endpoint that reports  *)
(* the job state.  One job is followed from the moment it is queued until  *)
(* the task returns or raises.                                             *)
(***************************************************************************)
EXTENDS Integers, Sequences, FiniteSets, TLC

(* ------------------------------ bounds -------------------------------- *)
\* control-point lists have 0..MaxPts entries each
MaxPts == 4
\* the OCR text holds at most MaxTokens word tokens
MaxTokens == 1
\* an extractor returns at most MaxFeatures features over its collections
MaxFeatures == 2
\* at most MaxSinkFailures calls of the feature sink raise during one job
MaxSinkFailures == 1

(* -------------------------- program constants -------------------------- *)
nb_task == 6

\* supported_file_ext of validate_file_extension
SupportedFileExt == {".jpg", ".jpeg", ".png"}

\* file-name extensions the job is started with
Extensions == {".png", ".TIFF", ".txt"}

\* str.lower() on the extensions above
Lower(ext) ==
  CASE ext = ".TIFF" -> ".tiff"
    [] OTHER -> ext

ValidateFileExtension(ext) == Lower(ext) \in SupportedFileExt

\* ALLOWED_EXTENSIONS of the upload endpoint and its test on the file name
ALLOWED_EXTENSIONS == {".jpg", ".jpeg", ".png", ".tiff", ".bmp", ".gif"}
UploadAllows(ext) == Lower(ext) \in ALLOWED_EXTENSIONS

\* map_id strings given to the task; UUID(map_id) raises on the malformed one
MapIdInputs == {"6f1c-uuid", "not-a-uuid"}
UuidParses(map_id) == map_id = "6f1c-uuid"

VARIABLES
  pc,              \* position of the task in process_map_extraction
  filename_ext,    \* extension of filename
  map_id,          \* the map_id argument
  npix, ngeo,      \* len(pixel_points), len(geo_points_lonlat) (None = 0)
  enable_color_extraction,
  enable_shapes_extraction,
  enable_text_extraction,
  state,           \* state of the job in the result backend
  info,            \* meta of the last update_state / result / exception
  updates,         \* every update_state call so far
  tmp_exists,      \* the temporary file is on disk
  tmp_bound,       \* "tmp_file_path" in locals()
  decoded,         \* cv2.imread has been called on the temporary file
  extracted_text,  \* tokens of the OCR text (after extract_text returned)
  tok,             \* index of the next token of the city loop
  color_result,
  pixel_features,
  shapes_result,
  called,          \* extractors called so far
  returned,        \* value each extractor returned, <<>> before it does
  sink,            \* every call of insert_feature_in_db so far
  db,              \* rows the sink has committed
  raised,          \* every exception raised so far, caught or not
  exc,             \* the exception propagating out of the try block
  failures,        \* number of times FAILURE was recorded
  result           \* <<return value>> of the task, <<>> before it returns

\* calls of the library functions followed on their own, outside a job:
\* the arguments of the call and, once it has returned or raised, its outcome
VARIABLES
  georef,          \* a call of georeference_features_with_sift_points
  snap,            \* refine_coastline_features applied to one feature
  city_lookup,     \* a call of find_first_city
  masks,           \* a call of build_exclusive_masks_by_nearest_center
  colors,          \* a call of select_colors_by_ratio_and_distance and the
                   \* layers extract_colors emits for its result
  contours,        \* a call of filter_contours and the features built from
                   \* the contours it keeps
  cancel           \* a revoke of the job's Celery task, sent while it runs

vars == <<pc, filename_ext, map_id, npix, ngeo, enable_color_extraction,
          enable_shapes_extraction, enable_text_extraction, state, info,
          updates, tmp_exists, tmp_bound, decoded, extracted_text,
          tok, color_result, pixel_features, shapes_result, called, returned,
          sink, db, raised, exc, failures, result, georef, snap,
          city_lookup, masks, colors, contours, cancel>>

lib == <<georef, snap, city_lookup, masks, colors, contours,
         cancel>>
\* no library call is being followed
NoCall == [outcome |-> "none"]
NoSnap == [stage |-> "none"]

inputs == <<filename_ext, map_id, npix, ngeo, enable_color_extraction,
            enable_shapes_extraction, enable_text_extraction>>
backend == <<state, info, updates, failures>>
files == <<tmp_exists, tmp_bound, decoded>>
store == <<sink, db>>
locals == <<extracted_text, tok, color_result, pixel_features, shapes_result,
            called, returned, result>>

(* ------------------------------ helpers ------------------------------- *)
RECURSIVE Flatten(_)
\* the features of a list of collections, in list order
Flatten(colls) ==
  IF colls = <<>> THEN <<>> ELSE Head(colls) \o Flatten(Tail(colls))

IsPrefix(s, t) == Len(s) <= Len(t) /\ SubSeq(t, 1, Len(s)) = s

Feature(kind, c, j, name, show, coords) ==
  [kind |-> kind, coll |-> c, idx |-> j, name |-> name, show |-> show,
   coords |-> coords, transform_method |-> "none"]

\* the collections of shape s, features of the given kind
Collections(kind, s, coords) ==
  [c \in 1..Len(s) |->
     [j \in 1..s[c] |-> Feature(kind, c, j, kind, TRUE, coords)]]

\* extract_colors appends one FeatureCollection of one feature per layer
ColorLayout(n) == [c \in 1..n |-> 1]
\* create_*_geojson_features return one FeatureCollection of all shapes
ShapeLayout(n) == <<n>>

ColorStub == [tag |-> "stub", normalized |-> <<>>, pixel |-> <<>>]
Unset == [tag |-> "unset", normalized |-> <<>>, pixel |-> <<>>]

(* --------------------------- the feature sink -------------------------- *)
\* insert_single_feature: the row built from data.get("geometry") and
\* data.get("properties", {}) of the dict it is handed
InsertSingleFeature(m, data) ==
  [map_id |-> m,
   geometry |-> IF data.type = "Feature" THEN data.features[1].coords
                ELSE "None",
   properties |-> IF data.type = "Feature" THEN data.features[1].name
                  ELSE "{}"]

\* insert_feature_in_db commits a row unless it takes the bulk branch, whose
\* recursive call lacks an argument (TypeError) or has nothing to insert
SinkCommits(call) ==
  /\ call.ok
  /\ ~(call.is_feature_collection /\ call.data.type = "FeatureCollection")

RowsOf(calls) ==
  LET kept == SelectSeq(calls, SinkCommits)
  IN [i \in 1..Len(kept) |-> InsertSingleFeature(kept[i].map_id, kept[i].data)]

SinkFailures == Cardinality({i \in DOMAIN sink : ~sink[i].ok})

\* the sets of calls (by position) that may raise among n further calls
FailSets(n) ==
  {F \in SUBSET (1..n) : Cardinality(F) + SinkFailures <= MaxSinkFailures}


\* variant of persist_features: one bulk call per collection
PersistFeatures_Bulk(map_uuid, normalized_features, F) ==
  [k \in 1..Len(normalized_features) |->
     [map_id |-> map_uuid,
      is_feature_collection |-> TRUE,
      data |-> [type |-> "FeatureCollection",
                features |-> normalized_features[k]],
      ok |-> k \notin F]]

\* variant of persist_features without the try/except around each call: the
\* first call that raises ends the run
PersistFeatures_StopAtFailure(map_uuid, normalized_features, F) ==
  LET fs == Flatten(normalized_features)
      last == IF F = {} THEN Len(fs)
              ELSE CHOOSE k \in F : \A m \in F : k <= m
  IN [k \in 1..last |->
        [map_id |-> map_uuid,
         is_feature_collection |-> FALSE,
         data |-> [type |-> "FeatureCollection", features |-> <<fs[k]>>],
         ok |-> k \notin F]]

\* persist_features: one insert_feature_in_db call per feature, collections
\* and features in list order; an exception of a call is logged and dropped
PersistFeatures(map_uuid, normalized_features, F) ==
  LET fs == Flatten(normalized_features)
  IN [k \in 1..Len(fs) |->
        [map_id |-> map_uuid,
         is_feature_collection |-> FALSE,
         data |-> [type |-> "FeatureCollection", features |-> <<fs[k]>>],
         ok |-> k \notin F]]

\* persist_city_feature: one call with the collection it is given
PersistCityFeature(map_uuid, feature, F) ==
  << [map_id |-> map_uuid,
      is_feature_collection |-> FALSE,
      data |-> feature,
      ok |-> 1 \notin F] >>

Store(calls) ==
  /\ sink' = sink \o calls
  /\ db' = db \o RowsOf(calls)

(* ------------------------------ the task ------------------------------ *)
\* self.update_state(state="PROGRESS", meta={current, total, status})
UpdateState(current, status) ==
  /\ state' = "PROGRESS"
  /\ info' = [current |-> current, total |-> nb_task, status |-> status]
  /\ updates' = Append(updates,
                  [current |-> current, total |-> nb_task, status |-> status])
  /\ UNCHANGED failures

\* an exception raised inside the try block propagates to the handler
Raise(e) ==
  /\ pc' = "except"
  /\ exc' = e
  /\ raised' = raised \cup {e}

\* lengths of the control-point lists a job is started with: none, or 2 and
\* more (a list of one point is handled as a list of two: georeferencing is
\* requested and every solver rejects it)
PointCounts == (0..MaxPts) \ {1}

Init ==
  /\ pc = "queued"
  /\ filename_ext \in Extensions
  /\ map_id \in MapIdInputs
  /\ npix \in PointCounts
  /\ ngeo \in PointCounts
  /\ enable_color_extraction \in BOOLEAN
  /\ enable_shapes_extraction \in BOOLEAN
  /\ enable_text_extraction \in BOOLEAN
  /\ state = "PENDING"
  /\ info = [current |-> 0, total |-> nb_task, status |-> ""]
  /\ updates = <<>>
  /\ tmp_exists = FALSE
  /\ tmp_bound = FALSE
  /\ decoded = FALSE
  /\ extracted_text = <<>>
  /\ tok = 1
  /\ color_result = Unset
  /\ pixel_features = <<>>
  /\ shapes_result = Unset
  /\ called = {}
  /\ returned = [extract_colors |-> <<>>, extract_shapes |-> <<>>]
  /\ sink = <<>>
  /\ db = <<>>
  /\ raised = {}
  /\ exc = "none"
  /\ failures = 0
  /\ result = <<>>
  /\ georef = NoCall
  /\ snap = NoSnap
  /\ city_lookup = NoCall
  /\ masks = NoCall
  /\ colors = NoCall
  /\ contours = NoCall
  /\ cancel = NoCall

\* map_uuid = UUID(map_id), before the try block: a ValueError leaves the
\* task at once and the worker records FAILURE
Start ==
  /\ pc = "queued"
  /\ IF UuidParses(map_id)
       THEN /\ pc' = "report_save"
            /\ UNCHANGED <<backend, raised, exc>>
       ELSE /\ pc' = "done"
            /\ state' = "FAILURE"
            /\ info' = [current |-> 0, total |-> nb_task, status |-> "uuid"]
            /\ failures' = failures + 1
            /\ raised' = raised \cup {"uuid"}
            /\ exc' = "uuid"
            /\ UNCHANGED updates
  /\ UNCHANGED <<lib, inputs, files, locals, store>>

\* Step 1: progress update
ReportSave ==
  /\ pc = "report_save"
  /\ UpdateState(1, "Saving uploaded file")
  /\ pc' = "create_temp"
  /\ UNCHANGED <<lib, inputs, files, locals, store, raised, exc>>

\* tempfile.NamedTemporaryFile(delete=False, suffix=...): creates the file
CreateTemp ==
  /\ pc = "create_temp"
  /\ \E ok \in BOOLEAN :
       IF ok
         THEN /\ tmp_exists' = TRUE
              /\ pc' = "write_temp"
              /\ UNCHANGED <<raised, exc>>
         ELSE /\ Raise("tempfile")
              /\ UNCHANGED tmp_exists
  /\ UNCHANGED <<lib, inputs, backend, tmp_bound, decoded, locals, store>>

\* tmp_file.write(file_content); tmp_file_path = tmp_file.name
WriteTemp ==
  /\ pc = "write_temp"
  /\ \E ok \in BOOLEAN :
       IF ok
         THEN /\ tmp_bound' = TRUE
              /\ pc' = "report_load"
              /\ UNCHANGED <<raised, exc>>
         ELSE /\ Raise("write")
              /\ UNCHANGED tmp_bound
  /\ UNCHANGED <<lib, inputs, backend, tmp_exists, decoded, locals, store>>

\* Step 2: progress update
ReportLoad ==
  /\ pc = "report_load"
  /\ UpdateState(2, "Loading and validating image")
  /\ pc' = "load"
  /\ UNCHANGED <<lib, inputs, files, locals, store, raised, exc>>

\* image = cv2.imread(path); image.flags.writeable = False (AttributeError
\* when imread returned None); then validate_file_extension
LoadImage ==
  /\ pc = "load"
  /\ decoded' = TRUE
  /\ \E decodable \in BOOLEAN :
       IF ~decodable THEN Raise("decode")
       ELSE IF ~ValidateFileExtension(filename_ext) THEN Raise("extension")
       ELSE /\ pc' = "report_text"
            /\ UNCHANGED <<raised, exc>>
  /\ UNCHANGED <<lib, inputs, backend, tmp_exists, tmp_bound, locals, store>>

\* Step 3: progress update, emitted whether or not text extraction is enabled
ReportText ==
  /\ pc = "report_text"
  /\ UpdateState(3, "Extracting text with EasyOCR")
  /\ pc' = "text"
  /\ UNCHANGED <<lib, inputs, files, locals, store, raised, exc>>

(* ---------------------------- text stage ------------------------------ *)
TokenName(i) == "tok" \o ToString(i)
CanonicalName(i) == "City" \o ToString(i)

\* what find_first_city hands back for token i: a dict for a gazetteer hit
\* (keys name, lat, lon, matched_text), the value False for a miss
FindFirstCity(outcome, i) ==
  IF outcome = "hit"
    THEN [is_dict |-> TRUE, has_found |-> FALSE, found |-> FALSE,
          name |-> CanonicalName(i), coords |-> "gazetteer"]
    ELSE [is_dict |-> FALSE, has_found |-> FALSE, found |-> FALSE,
          name |-> "", coords |-> ""]

\* the candidate built when find_first_city raises
NotFoundCandidate(i) ==
  [is_dict |-> TRUE, has_found |-> TRUE, found |-> FALSE,
   name |-> TokenName(i), coords |-> "0,0"]

\* city_feature: name = candidate.get("name") or tok,
\* show = bool(candidate.get("found")), coordinates from the candidate
CityFeature(candidate, i) ==
  Feature("point", 0, i,
          IF candidate.name = "" THEN TokenName(i) ELSE candidate.name,
          candidate.has_found /\ candidate.found,
          candidate.coords)

\* extracted_text, clean_image = extract_text(...) when text is enabled
ExtractText ==
  /\ pc = "text"
  /\ IF ~enable_text_extraction
       THEN /\ pc' = "report_color"
            /\ UNCHANGED <<extracted_text, called, raised, exc>>
       ELSE /\ called' = called \cup {"extract_text"}
            /\ \E ok \in BOOLEAN :
                 IF ~ok
                   THEN /\ Raise("ocr")
                        /\ UNCHANGED extracted_text
                   ELSE \E n \in 0..MaxTokens :
                          /\ extracted_text' = [i \in 1..n |-> TokenName(i)]
                          /\ pc' = IF n = 0 THEN "report_color" ELSE "cities"
                          /\ UNCHANGED <<raised, exc>>
  /\ UNCHANGED <<lib, inputs, backend, files, tok, color_result,
                 pixel_features, shapes_result, returned, result, store>>

\* one iteration of "for tok in tokens": lookup, feature, persistence.  The
\* loop sits in a try whose handler logs and leaves the loop.
CityToken ==
  /\ pc = "cities"
  /\ tok <= Len(extracted_text)
  /\ \E outcome \in {"hit", "miss", "raise"} :
       LET candidate == IF outcome = "raise" THEN NotFoundCandidate(tok)
                        ELSE FindFirstCity(outcome, tok)
           lookup == IF outcome = "raise" THEN {"gazetteer"} ELSE {}
       IN IF ~candidate.is_dict
            THEN \* False.get(...) raises AttributeError: "City detection failed"
                 /\ raised' = raised \cup {"candidate"}
                 /\ pc' = "report_color"
                 /\ UNCHANGED <<tok, store>>
            ELSE \E F \in FailSets(1) :
                   /\ Store(PersistCityFeature(map_id,
                        [type |-> "FeatureCollection",
                         features |-> <<CityFeature(candidate, tok)>>], F))
                   /\ raised' = raised \cup lookup
                                 \cup (IF F = {} THEN {} ELSE {"sink"})
                   /\ tok' = tok + 1
                   /\ pc' = IF tok = Len(extracted_text)
                              THEN "report_color" ELSE "cities"
  /\ UNCHANGED <<lib, inputs, backend, files, extracted_text, color_result,
                 pixel_features, shapes_result, called, returned, result, exc>>

\* Step 4: progress update
ReportColor ==
  /\ pc = "report_color"
  /\ UpdateState(4, "Extracting colors from image")
  /\ pc' = "color"
  /\ UNCHANGED <<lib, inputs, files, locals, store, raised, exc>>

(* ---------------------------- color stage ----------------------------- *)
\* color_result = extract_colors(tmp_file_path), called whatever the flags;
\* the normalized collections are persisted when there are any
ExtractColors ==
  /\ pc = "color"
  /\ called' = called \cup {"extract_colors"}
  /\ \E ok \in BOOLEAN :
       IF ~ok
         THEN /\ Raise("colors")
              /\ UNCHANGED <<color_result, pixel_features, returned, store>>
         ELSE \E n \in 0..MaxFeatures, has_pixel \in BOOLEAN :
                LET normalized == Collections("zone", ColorLayout(n), "unit")
                    pixel == IF has_pixel
                               THEN Collections("zone", ColorLayout(n), "pixel")
                               ELSE <<>>
                    value == [tag |-> "extracted", normalized |-> normalized,
                              pixel |-> pixel]
                IN /\ color_result' = value
                   /\ returned' = [returned EXCEPT !.extract_colors = <<value>>]
                   /\ pixel_features' = pixel
                   /\ \E F \in FailSets(Len(Flatten(normalized))) :
                        /\ Store(PersistFeatures(map_id, normalized, F))
                        /\ raised' = raised
                                     \cup (IF F = {} THEN {} ELSE {"sink"})
                   /\ pc' = "georef"
                   /\ UNCHANGED exc
  /\ UNCHANGED <<lib, inputs, backend, files, extracted_text, tok,
                 shapes_result, result>>

(* ------------------------- georeferencing stage ----------------------- *)

\* variant of the argument checks: only the pixel list is counted
EnoughPoints_PixelOnly(min_points, np, ng) == np >= min_points

\* the argument checks of build_tps/homography/affine_from_point_pairs
EnoughPoints(min_points, np, ng) ==
  np >= min_points /\ ng >= min_points /\ np = ng

\* variant of the solver choice without the fall-back to affine
TransformBuilt_NoFallback(np, use_tps, use_homography) ==
  IF use_tps THEN "TPS" ELSE IF use_homography THEN "homography" ELSE "affine"

\* the solver georeference_features_with_sift_points builds
TransformBuilt(np, use_tps, use_homography) ==
  IF use_tps THEN "TPS"
  ELSE IF use_homography /\ np >= 4 THEN "homography"
  ELSE "affine"

\* transform_method as written on the output features
TransformLabel(use_tps, use_homography) ==
  IF use_tps THEN "TPS" ELSE IF use_homography THEN "homography" ELSE "affine"

\* "empty" (returns [] before looking at the points), "error" (the solver's
\* argument check raises ValueError) or "ok"
GeorefCheck(colls, np, ng, use_tps, use_homography) ==
  IF colls = <<>> THEN "empty"
  ELSE IF TransformBuilt(np, use_tps, use_homography) = "homography"
         THEN IF EnoughPoints(4, np, ng) THEN "ok" ELSE "error"
  ELSE IF EnoughPoints(3, np, ng) THEN "ok" ELSE "error"

\* the georeferenced copy of the pixel-space collections
Georeferenced(colls, use_tps, use_homography) ==
  [c \in 1..Len(colls) |->
     [j \in 1..Len(colls[c]) |->
        [colls[c][j] EXCEPT !.coords = "wgs84",
              !.transform_method = TransformLabel(use_tps, use_homography)]]]

\* "if pixel_points and geo_points_lonlat:"
GeorefRequested(np, ng) == np > 0 /\ ng > 0

\* lines 281-320: georeference and persist inside try/except that logs; the
\* else branch of the same "if" replaces color_result
GeorefStage ==
  /\ pc = "georef"
  /\ pc' = "shapes"
  /\ IF GeorefRequested(npix, ngeo)
       THEN /\ UNCHANGED color_result
            /\ LET check == GeorefCheck(pixel_features, npix, ngeo, FALSE, TRUE)
               IN \/ /\ check = "empty"
                     /\ UNCHANGED <<store, raised>>
                  \/ /\ check = "error"
                     /\ raised' = raised \cup {"georef_points"}
                     /\ UNCHANGED store
                  \/ /\ check = "ok"
                     /\ \E solved \in BOOLEAN :
                          IF ~solved
                            THEN /\ raised' = raised \cup {"georef_solver"}
                                 /\ UNCHANGED store
                            ELSE LET out == Georeferenced(pixel_features,
                                                          FALSE, TRUE)
                                 IN \E F \in FailSets(Len(Flatten(out))) :
                                      /\ Store(PersistFeatures(map_id, out, F))
                                      /\ raised' = raised \cup
                                           (IF F = {} THEN {} ELSE {"sink"})
       ELSE /\ color_result' = ColorStub
            /\ UNCHANGED <<store, raised>>
  /\ UNCHANGED <<lib, inputs, backend, files, extracted_text, tok,
                 pixel_features, shapes_result, called, returned, result, exc>>

(* ---------------------------- shapes stage ---------------------------- *)
\* Step 5: progress update, only when shapes extraction is enabled
ReportShapes ==
  /\ pc = "shapes"
  /\ enable_shapes_extraction
  /\ UpdateState(5, "Extracting shapes from image")
  /\ pc' = "shapes_work"
  /\ UNCHANGED <<lib, inputs, files, locals, store, raised, exc>>

\* shapes extraction disabled: shapes_result = {}
SkipShapes ==
  /\ pc = "shapes"
  /\ ~enable_shapes_extraction
  /\ shapes_result' = ColorStub
  /\ pc' = "report_cleanup"
  /\ UNCHANGED <<lib, inputs, backend, files, extracted_text, tok,
                 color_result, pixel_features, called, returned, result, store,
                 raised, exc>>


\* variant of step 5: persists normalized_features (the color collections)
\* where shape_features is meant
ExtractShapes_WrongList ==
  /\ pc = "shapes_work"
  /\ called' = called \cup {"extract_shapes"}
  /\ \E n \in 0..MaxFeatures :
       LET value == [tag |-> "extracted",
                     normalized |-> Collections("shape", ShapeLayout(n), "unit"),
                     pixel |-> Collections("shape", ShapeLayout(n), "pixel")]
           wrong == IF returned.extract_colors = <<>> THEN <<>>
                    ELSE returned.extract_colors[1].normalized
       IN /\ shapes_result' = value
          /\ returned' = [returned EXCEPT !.extract_shapes = <<value>>]
          /\ Store(PersistFeatures(map_id, wrong, {}))
  /\ pc' = "report_cleanup"
  /\ UNCHANGED <<lib, inputs, backend, files, extracted_text, tok, color_result,
                 pixel_features, result, raised, exc>>

\* variant of step 5: an exception of extract_shapes is logged and dropped
ExtractShapes_Swallow ==
  /\ pc = "shapes_work"
  /\ called' = called \cup {"extract_shapes"}
  /\ raised' = raised \cup {"shapes"}
  /\ pc' = "report_cleanup"
  /\ UNCHANGED <<lib, inputs, backend, files, extracted_text, tok, color_result,
                 pixel_features, shapes_result, returned, result, store, exc>>

\* shapes_result = extract_shapes(path); persist its normalized_features
ExtractShapes ==
  /\ pc = "shapes_work"
  /\ called' = called \cup {"extract_shapes"}
  /\ \E ok \in BOOLEAN :
       IF ~ok
         THEN /\ Raise("shapes")
              /\ UNCHANGED <<shapes_result, returned, store>>
         ELSE \E n \in 0..MaxFeatures :
                LET normalized == Collections("shape", ShapeLayout(n), "unit")
                    value == [tag |-> "extracted", normalized |-> normalized,
                              pixel |-> Collections("shape", ShapeLayout(n),
                                                    "pixel")]
                IN /\ shapes_result' = value
                   /\ returned' = [returned EXCEPT !.extract_shapes = <<value>>]
                   /\ \E F \in FailSets(Len(Flatten(normalized))) :
                        /\ Store(PersistFeatures(map_id, normalized, F))
                        /\ raised' = raised
                                     \cup (IF F = {} THEN {} ELSE {"sink"})
                   /\ pc' = "report_cleanup"
                   /\ UNCHANGED exc
  /\ UNCHANGED <<lib, inputs, backend, files, extracted_text, tok,
                 color_result, pixel_features, result>>

(* ------------------------------ cleanup ------------------------------- *)

\* variant of step 6 without its progress update
ReportCleanup_Silent ==
  /\ pc = "report_cleanup"
  /\ pc' = "cleanup"
  /\ UNCHANGED <<lib, inputs, backend, files, locals, store, raised, exc>>

\* Step 6: progress update (current is 5 again)
ReportCleanup ==
  /\ pc = "report_cleanup"
  /\ UpdateState(5, "Cleaning up and finalizing")
  /\ pc' = "cleanup"
  /\ UNCHANGED <<lib, inputs, files, locals, store, raised, exc>>

\* the dict the task returns
BuildResult ==
  [filename |-> filename_ext,
   shapes_result |-> IF enable_shapes_extraction THEN shapes_result
                     ELSE ColorStub,
   color_result |-> IF enable_color_extraction THEN color_result
                    ELSE ColorStub,
   status |-> "completed",
   georeferencing |-> GeorefRequested(npix, ngeo),
   color_extraction |-> enable_color_extraction,
   shapes_extraction |-> enable_shapes_extraction,
   text_extraction |-> enable_text_extraction]

\* lines 354-409: os.unlink(tmp_file_path), write the OCR text file when
\* text is enabled (only the makedirs and the open/write are guarded), build
\* the result and return; the worker then records SUCCESS
Finalize ==
  /\ pc = "cleanup"
  /\ tmp_exists' = FALSE
  /\ \E ok \in BOOLEAN :
       IF enable_text_extraction /\ ~ok
         THEN /\ Raise("finalize")
              /\ UNCHANGED <<backend, result>>
         ELSE /\ result' = <<BuildResult>>
              /\ state' = "SUCCESS"
              /\ info' = [current |-> nb_task, total |-> nb_task,
                          status |-> "completed"]
              /\ pc' = "done"
              /\ UNCHANGED <<updates, failures, raised, exc>>
  /\ UNCHANGED <<lib, inputs, tmp_bound, decoded, extracted_text, tok,
                 color_result, pixel_features, shapes_result, called, returned,
                 store>>


\* variant of the handler: the error is reported with update_state and
\* swallowed instead of re-raised
ExceptHandler_Swallow ==
  /\ pc = "except"
  /\ tmp_exists' = IF tmp_bound THEN FALSE ELSE tmp_exists
  /\ UpdateState(0, exc)
  /\ pc' = "done"
  /\ UNCHANGED <<lib, inputs, tmp_bound, decoded, locals, store, raised, exc>>

\* except Exception as e: unlink the file if tmp_file_path is bound (a
\* failing unlink is ignored), raise e; the worker records FAILURE
ExceptHandler ==
  /\ pc = "except"
  /\ tmp_exists' = IF tmp_bound THEN FALSE ELSE tmp_exists
  /\ state' = "FAILURE"
  /\ info' = [current |-> 0, total |-> nb_task, status |-> exc]
  /\ failures' = failures + 1
  /\ pc' = "done"
  /\ UNCHANGED <<lib, inputs, updates, tmp_bound, decoded, locals, store,
                 raised, exc>>

(* --------------------------- status endpoint -------------------------- *)
\* round(current / total * 100, 2) in hundredths of a percent
ProgressPercentage(current, total) == (current * 20000 + total) \div (2 * total)

\* get_processing_status: the response for the job's present state
GetProcessingStatus ==
  CASE state = "PENDING" ->
         [state |-> state, progress_percentage |-> -1]
    [] state = "PROGRESS" ->
         [state |-> state,
          progress_percentage |-> ProgressPercentage(info.current, info.total)]
    [] state = "SUCCESS" ->
         [state |-> state, progress_percentage |-> 10000]
    [] OTHER ->
         [state |-> state, progress_percentage |-> 0]

Next ==
  \/ Start
  \/ ReportSave
  \/ CreateTemp
  \/ WriteTemp
  \/ ReportLoad
  \/ LoadImage
  \/ ReportText
  \/ ExtractText
  \/ CityToken
  \/ ReportColor
  \/ ExtractColors
  \/ GeorefStage
  \/ ReportShapes
  \/ SkipShapes
  \/ ExtractShapes
  \/ ReportCleanup
  \/ Finalize
  \/ ExceptHandler

Spec == Init /\ [][Next]_vars

(* ------------------- library calls followed on their own --------------- *)
\* no job is running: every variable of the task is at rest
NoJob ==
  /\ pc = "none"
  /\ filename_ext = ".png" /\ map_id = "6f1c-uuid"
  /\ npix = 0 /\ ngeo = 0
  /\ enable_color_extraction = FALSE
  /\ enable_shapes_extraction = FALSE
  /\ enable_text_extraction = FALSE
  /\ state = "PENDING"
  /\ info = [current |-> 0, total |-> nb_task, status |-> ""]
  /\ updates = <<>>
  /\ tmp_exists = FALSE /\ tmp_bound = FALSE /\ decoded = FALSE
  /\ extracted_text = <<>> /\ tok = 1
  /\ color_result = Unset /\ pixel_features = <<>> /\ shapes_result = Unset
  /\ called = {}
  /\ returned = [extract_colors |-> <<>>, extract_shapes |-> <<>>]
  /\ sink = <<>> /\ db = <<>>
  /\ raised = {} /\ exc = "none" /\ failures = 0 /\ result = <<>>

job == <<inputs, pc, backend, files, locals, store, raised, exc>>

(* ------------------------------ revocation ---------------------------- *)
\* a client revokes the task (celery_app.control.revoke on the task id, no
\* terminate) after the color stage has persisted features and before the
\* next stage starts; the request is noted with the sink and the rows as
\* they are at that moment
RequestCancel ==
  /\ pc = "georef"
  /\ cancel = NoCall
  /\ \E i \in DOMAIN sink : sink[i].data.features[1].kind = "zone"
  /\ cancel' = [outcome |-> "requested", calls |-> Len(sink), rows |-> db]
  /\ UNCHANGED <<job, georef, snap, city_lookup, masks, colors, contours>>

CancelNext == Next \/ RequestCancel

CancelSpec == Init /\ [][CancelNext]_vars

(* georeference_features_with_sift_points *)
\* what the call yields: "empty" ([] for no collections), "error" (raises)
\* or the transform it built and applied
GeorefOutcome(colls, np, ng, use_tps, use_homography) ==
  LET check == GeorefCheck(colls, np, ng, use_tps, use_homography)
  IN IF check = "ok" THEN TransformBuilt(np, use_tps, use_homography)
     ELSE check

GeorefInit ==
  /\ NoJob
  /\ snap = NoSnap
  /\ city_lookup = NoCall
  /\ masks = NoCall
  /\ colors = NoCall
  /\ contours = NoCall
  /\ cancel = NoCall
  /\ \E n \in 0..MaxFeatures, np \in 0..MaxPts, ng \in 0..MaxPts,
        use_tps \in BOOLEAN, use_homography \in BOOLEAN :
        georef = [colls |-> Collections("zone", ColorLayout(n), "pixel"),
                  np |-> np, ng |-> ng, use_tps |-> use_tps,
                  use_homography |-> use_homography, outcome |-> "pending",
                  out |-> <<>>]

GeorefCall ==
  /\ georef.outcome = "pending"
  /\ LET outcome == GeorefOutcome(georef.colls, georef.np, georef.ng,
                                  georef.use_tps, georef.use_homography)
     IN georef' = [georef EXCEPT
                     !.outcome = outcome,
                     !.out = IF outcome \in {"empty", "error"} THEN <<>>
                             ELSE Georeferenced(georef.colls, georef.use_tps,
                                                georef.use_homography)]
  /\ UNCHANGED <<job, cancel, snap, city_lookup, masks, colors,
                 contours>>

GeorefNext == GeorefCall

GeorefSpec == GeorefInit /\ [][GeorefNext]_vars

(* ------------------------- coastline snapping ------------------------- *)
\* defaults of refine_coastline_features, in km
max_snap_distance_km == 10
sift_proximity_km == 25

\* Positions are <<x, y>> in km on a map small enough to be flat, where
\* the Web-Mercator distance the code measures is the plane distance.  The
\* reference coastline is the line y = 0.
GridPoints == {<<0, 0>>, <<0, 10>>, <<0, 20>>, <<20, 10>>, <<40, 0>>,
               <<40, 20>>}

\* the marker lists a call is given
MarkerLists == {<<>>, << <<0, 0>> >>, << <<40, 20>> >>}

\* squared distance, as (dx**2 + dy**2) before math.sqrt
Dist2(p, q) ==
  (p[1] - q[1]) * (p[1] - q[1]) + (p[2] - q[2]) * (p[2] - q[2])

\* nearest_points(point, reference_coastline)[1]
NearestOnRef(p) == <<p[1], 0>>

\* distance_km <= limit_km for the distance of p to the reference coastline
WithinOfRef(p, limit_km) == Dist2(p, NearestOnRef(p)) <= limit_km * limit_km

\* snap_point_to_coastline
SnapPointToCoastline(point, max_km) ==
  IF WithinOfRef(point, max_km) THEN NearestOnRef(point) ELSE point

\* _is_point_actually_on_coastline
IsPointActuallyOnCoastline(coord, max_distance_km) ==
  WithinOfRef(coord, max_distance_km)

\* the loop over sift_control_points: some marker is within sift_proximity_km
IsNearSift(coord, markers, prox_km) ==
  \E m \in 1..Len(markers) : Dist2(coord, markers[m]) <= prox_km * prox_km

RECURSIVE RemoveDuplicateConsecutivePoints(_)
\* _remove_duplicate_consecutive_points
RemoveDuplicateConsecutivePoints(coords) ==
  IF Len(coords) <= 1 THEN coords
  ELSE LET front == RemoveDuplicateConsecutivePoints(
                      SubSeq(coords, 1, Len(coords) - 1))
           last == coords[Len(coords)]
       IN IF front[Len(front)] = last THEN front ELSE Append(front, last)

\* variant of the per-vertex decision that skips the marker test
SnapVertex_AnyRegion(coord, markers, max_km, prox_km) ==
  IF IsPointActuallyOnCoastline(coord, 2 * max_km)
    THEN [coord |-> SnapPointToCoastline(coord, max_km), coastline |-> TRUE]
    ELSE [coord |-> coord, coastline |-> FALSE]

\* one iteration of "for coord in coords": the coordinate appended and
\* whether the vertex was counted as a coastline point
SnapVertex(coord, markers, max_km, prox_km) ==
  IF /\ IsNearSift(coord, markers, prox_km)
     /\ IsPointActuallyOnCoastline(coord, 2 * max_km)
    THEN [coord |-> SnapPointToCoastline(coord, max_km), coastline |-> TRUE]
    ELSE [coord |-> coord, coastline |-> FALSE]

\* _snap_linestring_coordinates_selective: (snapped_coords, num_snapped,
\* num_coastline_points)
SnapLinestringCoordinatesSelective(coords, markers, max_km, prox_km) ==
  LET each == [i \in 1..Len(coords) |->
                 SnapVertex(coords[i], markers, max_km, prox_km)]
  IN [snapped_coords |->
        RemoveDuplicateConsecutivePoints(
          [i \in 1..Len(coords) |-> each[i].coord]),
      num_snapped |->
        Cardinality({i \in 1..Len(coords) : each[i].coord # coords[i]}),
      num_coastline_points |->
        Cardinality({i \in 1..Len(coords) : each[i].coastline})]

\* ---- shapely: construction, validity and zero-buffer repair ----
Sign(n) == IF n > 0 THEN 1 ELSE IF n < 0 THEN -1 ELSE 0
Cross(a, b, c) ==
  (b[1] - a[1]) * (c[2] - a[2]) - (b[2] - a[2]) * (c[1] - a[1])
Between(v, l, r) == (l <= v /\ v <= r) \/ (r <= v /\ v <= l)
OnSegment(p, a, b) ==
  Cross(a, b, p) = 0 /\ Between(p[1], a[1], b[1]) /\ Between(p[2], a[2], b[2])
SegmentsMeet(a, b, c, d) ==
  \/ /\ Sign(Cross(c, d, a)) * Sign(Cross(c, d, b)) < 0
     /\ Sign(Cross(a, b, c)) * Sign(Cross(a, b, d)) < 0
  \/ OnSegment(a, c, d) \/ OnSegment(b, c, d)
  \/ OnSegment(c, a, b) \/ OnSegment(d, a, b)

\* a closed ring is simple: at least three distinct corners, edges that
\* meet only at shared corners, no spike
IsSimpleRing(ring) ==
  LET n == Len(ring) - 1
  IN /\ Len(ring) >= 4
     /\ ring[1] = ring[Len(ring)]
     /\ \A i \in 1..n : ring[i] # ring[i + 1]
     /\ \A i, j \in 1..n :
          i < j =>
            IF j = i + 1
              THEN /\ ~OnSegment(ring[j + 1], ring[i], ring[i + 1])
                   /\ ~OnSegment(ring[i], ring[j], ring[j + 1])
            ELSE IF i = 1 /\ j = n
              THEN /\ ~OnSegment(ring[2], ring[n], ring[n + 1])
                   /\ ~OnSegment(ring[n], ring[1], ring[2])
            ELSE ~SegmentsMeet(ring[i], ring[i + 1], ring[j], ring[j + 1])

\* geometry.is_valid: a LineString that could be built is valid, a Polygon
\* is valid when empty or when its exterior ring is simple
IsValid(geom_type, coords) ==
  geom_type = "LineString" \/ coords = <<>> \/ IsSimpleRing(coords)

\* How the installed shapely behaves where its releases differ or where the
\* code provides for more than one outcome: whether a closed ring of three
\* coordinates is refused, and what buffer(0) does with an invalid polygon.
\* The behaviour is the same for every call of one run.
ShapelyBuilds ==
  {[strict_rings |-> TRUE, buffer |-> "valid"],
   [strict_rings |-> FALSE, buffer |-> "valid"],
   [strict_rings |-> FALSE, buffer |-> "raises"],
   [strict_rings |-> FALSE, buffer |-> "invalid"]}

\* LineString(coords) / Polygon(coords, interiors): "raises" or "built"
Construct(geom_type, coords, shapely) ==
  IF geom_type = "LineString"
    THEN IF Len(coords) < 2 THEN "raises" ELSE "built"
  ELSE IF Len(coords) = 0 THEN "built"
  ELSE IF Len(coords) < 3 THEN "raises"
  ELSE IF Len(coords) = 3 /\ shapely.strict_rings THEN "raises"
  ELSE "built"

\* the parts buffer(0) cuts a self-crossing ring into: where two edges
\* cross at a grid point p, the ring from p along one side back to p
Lobes(ring) ==
  LET n == Len(ring) - 1
  IN {lobe \in UNION {
        { <<p>> \o SubSeq(ring, i + 1, j) \o <<p>>,
          <<p>> \o SubSeq(ring, j + 1, n) \o SubSeq(ring, 1, i) \o <<p>> } :
        <<i, j, p>> \in
          {t \in (1..n) \X (1..n) \X GridPoints :
             /\ t[1] + 1 < t[2]
             /\ ~(t[1] = 1 /\ t[2] = n)
             /\ OnSegment(t[3], ring[t[1]], ring[t[1] + 1])
             /\ OnSegment(t[3], ring[t[2]], ring[t[2] + 1])} } :
      IsSimpleRing(lobe)}

\* refined_geom.buffer(0) on an invalid polygon: it raises, or returns a
\* geometry that is_valid rejects again, or returns a valid geometry: one of
\* the lobes, or the empty polygon when nothing of positive area is left
ZeroBuffer(ring, shapely) ==
  LET lobes == Lobes(ring)
  IN IF shapely.buffer = "raises"
       THEN {[result |-> "raises", coords |-> <<>>]}
     ELSE IF shapely.buffer = "invalid"
       THEN {[result |-> "invalid", coords |-> ring]}
     ELSE IF lobes = {} THEN {[result |-> "valid", coords |-> <<>>]}
     ELSE {[result |-> "valid", coords |-> l] : l \in lobes}

\* ---- refine_coastline_features, for one feature ----
\* refined_props: the feature's properties updated with the snapping keys
RefinedProps(points_snapped, coastline_points, max_km) ==
  << [coastline_snapped |-> TRUE, points_snapped |-> points_snapped,
      coastline_points_detected |-> coastline_points,
      snap_distance_km |-> max_km] >>

\* refined_features.append(feature); features_skipped += 1
KeepOriginal(feature, sel, path) ==
  [out |-> feature, counted |-> "skipped", sel |-> sel, path |-> path]

\* variant of the repair failure that emits the snapped geometry as it is
RepairFailed_EmitRefined(feature, sel, refined) ==
  [out |-> refined, counted |-> "snapped", sel |-> sel, path |-> "unrepaired"]

\* lines 357-368: buffer(0) did not give a valid geometry, or raised
RepairFailed(feature, sel, refined) == KeepOriginal(feature, sel, "unrepaired")

\* the body of "for feature in fc.get('features', [])": every result the
\* iteration can have for the feature
RefineFeature(feature, markers, max_km, prox_km, shapely) ==
  IF feature.geom_type \notin {"Polygon", "LineString"}
    THEN {KeepOriginal(feature, <<>>, "not_a_line")}
  ELSE
    LET r == SnapLinestringCoordinatesSelective(feature.coords, markers,
                                                max_km, prox_km)
        sel == <<r>>
        props == RefinedProps(r.num_snapped, r.num_coastline_points, max_km)
        refined == [geom_type |-> feature.geom_type,
                    coords |-> r.snapped_coords, props |-> props]
        Emit(f, path) ==
          [out |-> f, counted |-> "snapped", sel |-> sel, path |-> path]
        Built ==
          IF r.num_snapped = 0 THEN {KeepOriginal(feature, sel, "no_snap")}
          ELSE IF IsValid(feature.geom_type, r.snapped_coords)
            THEN {Emit(refined, "snapped")}
          ELSE {IF b.result = "valid"
                  THEN Emit([refined EXCEPT !.coords = b.coords], "repaired")
                  ELSE RepairFailed(feature, sel, refined) :
                b \in ZeroBuffer(r.snapped_coords, shapely)}
    IN IF Construct(feature.geom_type, r.snapped_coords, shapely) = "raises"
         THEN {KeepOriginal(feature, sel, "error")}
         ELSE Built

\* a line or a ring has at most MaxVerts vertices (closing coordinate of a
\* ring not counted)
MaxVerts == 4

RECURSIVE SeqsUpTo(_, _)
\* the sequences over S of length 0..n
SeqsUpTo(S, n) ==
  IF n = 0 THEN {<<>>}
  ELSE LET shorter == SeqsUpTo(S, n - 1)
       IN shorter \cup {Append(q, x) : q \in shorter, x \in S}

\* geometries a feature of the georeferenced collections can carry
InputFeatures ==
  LET lists == SeqsUpTo(GridPoints, MaxVerts)
  IN {[geom_type |-> "LineString", coords |-> q, props |-> <<>>] :
        q \in {l \in lists : Len(l) >= 2}}
     \cup {[geom_type |-> "Polygon", coords |-> Append(q, q[1]),
            props |-> <<>>] : q \in {l \in lists : Len(l) >= 3}}
     \cup {[geom_type |-> "Point", coords |-> <<q>>, props |-> <<>>] :
             q \in GridPoints}

SnapInit ==
  /\ NoJob
  /\ georef = NoCall
  /\ city_lookup = NoCall
  /\ masks = NoCall
  /\ colors = NoCall
  /\ contours = NoCall
  /\ cancel = NoCall
  /\ \E f \in InputFeatures, markers \in MarkerLists,
        shapely \in ShapelyBuilds :
       snap = [stage |-> "input", pass |-> 1, markers |-> markers,
               shapely |-> shapely,
               feature |-> f, sel |-> <<>>, out |-> <<>>, counted |-> "",
               path |-> "", first |-> <<>>]

\* refine_coastline_features on a collection holding the feature: without
\* markers the collections are returned as they came
RefineCall ==
  /\ snap.stage = "input"
  /\ IF snap.markers = <<>>
       THEN snap' = [snap EXCEPT !.stage = "emitted",
                                 !.out = <<snap.feature>>,
                                 !.path = "no_markers"]
       ELSE \E r \in RefineFeature(snap.feature, snap.markers,
                                   max_snap_distance_km, sift_proximity_km,
                                   snap.shapely) :
              snap' = [snap EXCEPT !.stage = "emitted", !.out = <<r.out>>,
                                   !.counted = r.counted, !.sel = r.sel,
                                   !.path = r.path]
  /\ UNCHANGED <<job, cancel, georef, city_lookup, masks, colors,
                 contours>>

\* the caller hands the output to refine_coastline_features once more, with
\* the same reference, markers and distances
Reapply ==
  /\ snap.stage = "emitted"
  /\ snap.pass = 1
  /\ snap' = [snap EXCEPT !.stage = "input", !.pass = 2,
                          !.feature = snap.out[1], !.first = snap.out,
                          !.sel = <<>>, !.out = <<>>, !.counted = "",
                          !.path = ""]
  /\ UNCHANGED <<job, cancel, georef, city_lookup, masks, colors,
                 contours>>

SnapNext == RefineCall \/ Reapply

SnapSpec == SnapInit /\ [][SnapNext]_vars

(* ------------------------------ gazetteer ------------------------------ *)
\* a normalized name has at most MaxCandidates entries in _city_map
MaxCandidates == 3

\* Entries of _city_map for one normalized name.  name is the position of
\* the canonical name in lexicographic order (1 comes first); population is
\* <<>> when the gazetteer has none (None), <<n>> otherwise.
Populations == {<<>>, <<0>>, <<5>>}
CityEntries ==
  {[name |-> n, population |-> p] : n \in 1..MaxCandidates, p \in Populations}

\* pop_key: int(c.get("population") or 0)
PopKey(c) == IF c.population = <<>> THEN 0 ELSE c.population[1]

\* max(candidates, key=pop_key): the first of the candidates with the
\* largest key, in list order
PyMaxByPopulation(candidates) ==
  candidates[CHOOSE i \in 1..Len(candidates) :
               /\ \A j \in 1..Len(candidates) :
                    PopKey(candidates[j]) <= PopKey(candidates[i])
               /\ \A j \in 1..(i - 1) :
                    PopKey(candidates[j]) < PopKey(candidates[i])]

\* find_first_city for a token whose normalized form has these entries, in
\* the order they were loaded: <<>> for the value False, <<best>> for a dict
FindFirstCityAmong(candidates) ==
  IF candidates = <<>> THEN <<>> ELSE <<PyMaxByPopulation(candidates)>>

CityInit ==
  /\ NoJob
  /\ georef = NoCall
  /\ snap = NoSnap
  /\ masks = NoCall
  /\ colors = NoCall
  /\ contours = NoCall
  /\ cancel = NoCall
  /\ \E candidates \in SeqsUpTo(CityEntries, MaxCandidates) :
       city_lookup = [candidates |-> candidates, outcome |-> "pending",
                      best |-> <<>>]

CityCall ==
  /\ city_lookup.outcome = "pending"
  /\ city_lookup' = [city_lookup EXCEPT
                       !.outcome = "returned",
                       !.best = FindFirstCityAmong(city_lookup.candidates)]
  /\ UNCHANGED <<job, cancel, georef, snap, masks, colors, contours>>

CityNext == CityCall

CitySpec == CityInit /\ [][CityNext]_vars

(* ------------------------------ color masks ---------------------------- *)
\* the image has 1..MaxPixels pixels, the palette 1..MaxCenters centers
MaxPixels == 2
MaxCenters == 2

\* values of deltaE_ciede2000 between a pixel and a center, and of
\* mask_deltaE
DeltaEs == {0, 1, 2}
MaskDeltaEs == {0, 1}

\* np.argmin over the centers: the first index of the smallest distance
ArgMin(row) ==
  CHOOSE k \in 1..Len(row) :
    /\ \A j \in 1..Len(row) : row[k] <= row[j]
    /\ \A j \in 1..(k - 1) : row[j] > row[k]

\* build_exclusive_masks_by_nearest_center: dist_stack[p] holds the distance
\* of pixel p to each center
BuildExclusiveMasksByNearestCenter(dist_stack, opaque_mask, mask_deltaE) ==
  [best_idx |-> [p \in DOMAIN dist_stack |-> ArgMin(dist_stack[p])],
   valid |-> {p \in DOMAIN dist_stack :
                /\ dist_stack[p][ArgMin(dist_stack[p])] <= mask_deltaE
                /\ p \in opaque_mask}]

\* variant of the layer masks: every center within mask_deltaE claims the
\* pixel
LayerMasks_Threshold(dist_stack, opaque_mask, mask_deltaE, K) ==
  [k \in 1..K |->
     {p \in opaque_mask : dist_stack[p][k] <= mask_deltaE}]

\* extract_colors: mask = (best_idx == k) & valid for each selected center
LayerMasks(dist_stack, opaque_mask, mask_deltaE, K) ==
  LET r == BuildExclusiveMasksByNearestCenter(dist_stack, opaque_mask,
                                              mask_deltaE)
  IN [k \in 1..K |-> {p \in r.valid : r.best_idx[p] = k}]

MaskInit ==
  /\ NoJob
  /\ georef = NoCall
  /\ snap = NoSnap
  /\ city_lookup = NoCall
  /\ colors = NoCall
  /\ contours = NoCall
  /\ cancel = NoCall
  /\ \E n \in 1..MaxPixels, K \in 1..MaxCenters :
       \E dist_stack \in [1..n -> [1..K -> DeltaEs]],
          opaque_mask \in SUBSET (1..n), mask_deltaE \in MaskDeltaEs :
         masks = [dist_stack |-> dist_stack, opaque_mask |-> opaque_mask,
                  mask_deltaE |-> mask_deltaE, K |-> K,
                  outcome |-> "pending", layers |-> <<>>]

MaskCall ==
  /\ masks.outcome = "pending"
  /\ masks' = [masks EXCEPT
                 !.outcome = "returned",
                 !.layers = LayerMasks(masks.dist_stack, masks.opaque_mask,
                                       masks.mask_deltaE, masks.K)]
  /\ UNCHANGED <<job, cancel, georef, snap, city_lookup, colors,
                 contours>>

MaskNext == MaskCall

MaskSpec == MaskInit /\ [][MaskNext]_vars

(* --------------------------- color selection --------------------------- *)
\* most bins of one image, and most entries of one list to merge
MaxBins == 3

top_n_bins == 200

\* pixel counts of a bin (ratio = count / total) and positions of the bin
\* centers on one axis of LAB space; the thresholds are in the same units
Counts == {1, 2, 3}
Centers == {0, 1, 4, 8}
\* <<dominant_ratio, accent_min_ratio>>
RatioThresholds == {<<1, 1>>, <<3, 1>>, <<3, 2>>}
AccentMinDeltaEs == {4}
MergeDeltaEs == {2, 4}

\* two bins never share a center
DistinctCenters(centers) ==
  \A i, j \in DOMAIN centers : i # j => centers[i] # centers[j]

\* deltaE_ciede2000 between two centers: symmetric, 0 between equal centers
DeltaE(c1, c2) == IF c1 >= c2 THEN c1 - c2 ELSE c2 - c1

Bin(id, count, center) == [bin_id |-> id, ratio |-> count, lab_center |-> center]

\* list.sort / sorted with key = -ratio: stable
RECURSIVE InsertByRatio(_, _)
InsertByRatio(sorted, e) ==
  IF sorted = <<>> THEN <<e>>
  ELSE IF sorted[Len(sorted)].ratio >= e.ratio THEN Append(sorted, e)
  ELSE Append(InsertByRatio(SubSeq(sorted, 1, Len(sorted) - 1), e),
              sorted[Len(sorted)])

RECURSIVE SortByRatio(_)
SortByRatio(s) ==
  IF s = <<>> THEN <<>>
  ELSE InsertByRatio(SortByRatio(SubSeq(s, 1, Len(s) - 1)), s[Len(s)])

\* np.argsort(-ratios) with the default kind: an order by descending ratio in
\* which equal ratios may come out in any order
ArgSorts(ratios) ==
  {p \in Permutations(DOMAIN ratios) :
     \A i, j \in DOMAIN ratios : i < j => ratios[p[i]] >= ratios[p[j]]}

\* dominant_bins_lab, after np.unique has listed the bins by ascending id:
\* the bins in the order argsort gives, cut to top_n
DominantBinsLab(bins, order, top_n) ==
  LET n == IF top_n < Len(bins) THEN top_n ELSE Len(bins)
  IN [k \in 1..n |-> bins[order[k]]]

\* min over the selected centers of deltaE to c
MinDeltaE(c, selected) ==
  CHOOSE d \in {DeltaE(c.lab_center, selected[i].lab_center) :
                  i \in DOMAIN selected} :
    \A i \in DOMAIN selected : d <= DeltaE(c.lab_center, selected[i].lab_center)

\* lines 364-374: the accent loop
RECURSIVE AddAccents(_, _, _)
AddAccents(selected, candidates, min_deltaE) ==
  IF candidates = <<>> THEN selected
  ELSE LET c == Head(candidates)
       IN AddAccents(IF MinDeltaE(c, selected) >= min_deltaE
                       THEN Append(selected, c) ELSE selected,
                     Tail(candidates), min_deltaE)

\* lines 378-395: the fall-back loop; relaxed = min_deltaE * 0.5
RECURSIVE AddFallback(_, _, _, _)
AddFallback(selected, bins, floor, min_deltaE) ==
  IF bins = <<>> \/ Len(selected) >= floor THEN selected
  ELSE LET b == Head(bins)
           taken == \E i \in DOMAIN selected : selected[i].bin_id = b.bin_id
       IN AddFallback(IF ~taken /\ 2 * MinDeltaE(b, selected) >= min_deltaE
                        THEN Append(selected, b) ELSE selected,
                      Tail(bins), floor, min_deltaE)

\* lines 425-440: the inner loop of merge_similar_colors from entry j on;
\* members are the entries the representative has absorbed so far
RECURSIVE Absorb(_, _, _, _)
Absorb(selected, j, acc, threshold) ==
  IF j > Len(selected) THEN acc
  ELSE IF j \in acc.used
         \/ DeltaE(acc.rep.lab_center, selected[j].lab_center) >= threshold
         THEN Absorb(selected, j + 1, acc, threshold)
  ELSE Absorb(selected, j + 1,
              [rep |-> IF selected[j].ratio > acc.rep.ratio
                         THEN selected[j] ELSE acc.rep,
               total |-> acc.total + selected[j].ratio,
               used |-> acc.used \cup {j},
               members |-> acc.members \cup {j}],
              threshold)

\* lines 415-443: the outer loop from entry i on
RECURSIVE MergeFrom(_, _, _, _, _)
MergeFrom(selected, i, used, merged, threshold) ==
  IF i > Len(selected) THEN merged
  ELSE IF i \in used THEN MergeFrom(selected, i + 1, used, merged, threshold)
  ELSE LET acc == Absorb(selected, i + 1,
                         [rep |-> selected[i], total |-> selected[i].ratio,
                          used |-> used \cup {i}, members |-> {i}],
                         threshold)
       IN MergeFrom(selected, i + 1, acc.used,
                    Append(merged, [entry |-> [acc.rep EXCEPT !.ratio = acc.total],
                                    ratio |-> acc.total,
                                    members |-> acc.members]),
                    threshold)

\* the merged entries in the order returned, each with the positions of the
\* input entries it absorbed
MergeGroups(selected, threshold) ==
  SortByRatio(MergeFrom(selected, 1, {}, <<>>, threshold))

\* variant that keeps the first entry of a group as its representative
MergeSimilarColors_FirstIsRep(selected, threshold) ==
  LET g == MergeGroups(selected, threshold)
  IN [k \in DOMAIN g |->
        LET first == CHOOSE m \in g[k].members : \A o \in g[k].members : m <= o
        IN [selected[first] EXCEPT !.ratio = g[k].ratio]]

MergeSimilarColors(selected, threshold) ==
  LET g == MergeGroups(selected, threshold)
  IN [k \in DOMAIN g |-> g[k].entry]

None == <<>>

\* variant that ranks a bin whose ratio equals dominant_ratio as an accent
SelectDominants_Strict(bins, dominant_ratio) ==
  SelectSeq(bins, LAMBDA b : b.ratio > dominant_ratio)

\* line 350
SelectDominants(bins, dominant_ratio) ==
  SelectSeq(bins, LAMBDA b : b.ratio >= dominant_ratio)

SelectColorsByRatioAndDistance(bins, dominant_ratio, accent_min_ratio, accent_min_deltaE, min_colors_fallback, merge_similar, merge_deltaE) ==
  IF bins = <<>> THEN <<>>
  ELSE
    LET sorted == SortByRatio(bins)
        found == SelectDominants(sorted, dominant_ratio)
        dominants == IF found = <<>> THEN <<sorted[1]>> ELSE found
        candidates ==
          SortByRatio(SelectSeq(sorted, LAMBDA b : /\ b.ratio < dominant_ratio
                                                   /\ b.ratio >= accent_min_ratio))
        accents == AddAccents(dominants, candidates, accent_min_deltaE)
        floored == IF /\ min_colors_fallback # None
                      /\ Len(accents) < min_colors_fallback[1]
                     THEN AddFallback(accents, sorted, min_colors_fallback[1],
                                      accent_min_deltaE)
                     ELSE accents
        selected == SortByRatio(floored)
    IN IF merge_similar THEN MergeSimilarColors(selected, merge_deltaE)
       ELSE selected

FallbackFloors == {None, <<2>>}

\* the other library calls are idle
OnlyColors ==
  /\ NoJob
  /\ georef = NoCall
  /\ snap = NoSnap
  /\ city_lookup = NoCall
  /\ masks = NoCall
  /\ contours = NoCall
  /\ cancel = NoCall

\* an image whose opaque pixels fall into n bins; np.unique lists them by
\* ascending bin_id
ColorInit ==
  /\ OnlyColors
  /\ \E n \in 0..MaxBins :
       \E counts \in [1..n -> Counts], centers \in [1..n -> Centers],
          ratios \in RatioThresholds,
          accent_min_deltaE \in AccentMinDeltaEs,
          min_colors_fallback \in FallbackFloors,
          merge_similar \in BOOLEAN, merge_deltaE \in MergeDeltaEs :
         /\ DistinctCenters(centers)
         /\ colors = [stage |-> "counted",
                      unique |-> [i \in 1..n |->
                                    Bin(i, counts[i], centers[i])],
                      dominant_ratio |-> ratios[1],
                      accent_min_ratio |-> ratios[2],
                      accent_min_deltaE |-> accent_min_deltaE,
                      min_colors_fallback |-> min_colors_fallback,
                      merge_similar |-> merge_similar,
                      merge_deltaE |-> merge_deltaE,
                      dom |-> <<>>, selected |-> <<>>]

\* dom = dominant_bins_lab(...)
DominantBins ==
  /\ colors.stage = "counted"
  /\ \E order \in ArgSorts([i \in DOMAIN colors.unique |->
                              colors.unique[i].ratio]) :
       colors' = [colors EXCEPT
                    !.stage = "binned",
                    !.dom = DominantBinsLab(colors.unique, order, top_n_bins)]
  /\ UNCHANGED <<job, cancel, georef, snap, city_lookup, masks,
                 contours>>

\* selected = select_colors_by_ratio_and_distance(dom, ...)
SelectColors ==
  /\ colors.stage = "binned"
  /\ colors' = [colors EXCEPT
                  !.stage = "selected",
                  !.selected = SelectColorsByRatioAndDistance(
                                 colors.dom, colors.dominant_ratio,
                                 colors.accent_min_ratio,
                                 colors.accent_min_deltaE,
                                 colors.min_colors_fallback,
                                 colors.merge_similar, colors.merge_deltaE)]
  /\ UNCHANGED <<job, cancel, georef, snap, city_lookup, masks,
                 contours>>

ColorNext == DominantBins \/ SelectColors

ColorSpec == ColorInit /\ [][ColorNext]_vars

\* merge_similar_colors called on any list of selections
MergeInit ==
  /\ OnlyColors
  /\ \E n \in 0..MaxBins :
       \E counts \in [1..n -> Counts], centers \in [1..n -> Centers],
          threshold \in MergeDeltaEs :
         /\ DistinctCenters(centers)
         /\ colors = [stage |-> "to_merge",
                      selected |-> [i \in 1..n |->
                                      Bin(i, counts[i], centers[i])],
                      threshold |-> threshold, groups |-> <<>>,
                      merged |-> <<>>]

MergeCall ==
  /\ colors.stage = "to_merge"
  /\ colors' = [colors EXCEPT
                  !.stage = "merged",
                  !.groups = MergeGroups(colors.selected, colors.threshold),
                  !.merged = MergeSimilarColors(colors.selected,
                                                colors.threshold)]
  /\ UNCHANGED <<job, cancel, georef, snap, city_lookup, masks,
                 contours>>

MergeNext == MergeCall

MergeSpec == MergeInit /\ [][MergeNext]_vars

(* ---------------------------- color layers ---------------------------- *)
\* what the mask of a selected center holds: no pixel, pixels that
\* mask_to_geometry turns into a geometry, or pixels for which it returns None
MaskKinds == {"empty", "geom", "no_geom"}

\* f"{color_name}_{color_index}": the CSS4 name nearest to the center and the
\* rank
UniqueColorName(lab_center, color_index) == <<lab_center, color_index>>

\* build_normalized_feature
BuildNormalizedFeature(color_name) ==
  [color_name |-> color_name, mapElementType |-> "zone",
   is_normalized |-> TRUE, coords |-> "unit"]

\* lines 729-765: the loop over the selected centers from entry k on
RECURSIVE EmitFrom(_, _, _, _, _)
EmitFrom(selected, mask, k, color_index, out) ==
  IF k > Len(selected) THEN out
  ELSE IF mask[k] = "empty"
         THEN EmitFrom(selected, mask, k + 1, color_index, out)
  ELSE LET name == UniqueColorName(selected[k].lab_center, color_index)
           feature == BuildNormalizedFeature(name)
       IN EmitFrom(selected, mask, k + 1, color_index + 1,
                   [out EXCEPT
                      !.colors_detected = Append(@, name),
                      !.ratios = Append(@, selected[k].ratio),
                      !.normalized_features =
                         IF mask[k] = "geom"
                           THEN Append(@, [type |-> "FeatureCollection",
                                           features |-> <<feature>>])
                           ELSE @])

\* lines 721-776 of extract_colors
EmitLayers(selected, mask) ==
  EmitFrom(selected, mask, 1, 1,
           [colors_detected |-> <<>>, ratios |-> <<>>,
            normalized_features |-> <<>>, pixel_features |-> <<>>])

\* selections as select_colors_by_ratio_and_distance returns them (by
\* descending ratio), each with the kind of its mask
LayerInit ==
  /\ OnlyColors
  /\ \E n \in 0..MaxBins :
       \E counts \in [1..n -> Counts], centers \in [1..n -> Centers],
          mask \in [1..n -> MaskKinds] :
         /\ \A i, j \in 1..n : i < j => counts[i] >= counts[j]
         /\ DistinctCenters(centers)
         /\ colors = [stage |-> "to_emit",
                      selected |-> [i \in 1..n |->
                                      Bin(i, counts[i], centers[i])],
                      mask |-> mask, out |-> <<>>]

EmitColorLayers ==
  /\ colors.stage = "to_emit"
  /\ colors' = [colors EXCEPT
                  !.stage = "emitted",
                  !.out = EmitLayers(colors.selected, colors.mask)]
  /\ UNCHANGED <<job, cancel, georef, snap, city_lookup, masks, contours>>

LayerNext == EmitColorLayers

LayerSpec == LayerInit /\ [][LayerNext]_vars

(* ------------------------------- shapes -------------------------------- *)
\* most contours cv2.findContours reports for one image
MaxContours == 2

\* cv2.contourArea and len(contour) of a contour; areas of the image and the
\* min_area / max_area arguments, all in pixels
Areas == {0, 1, 2, 3}
ContourLengths == {2, 3}
MinAreas == {0, 1}
MaxAreas == {2, 3}
ImageAreas == {4, 5}

\* a contour, known by its position in the order of discovery
Contour(id, area, points) == [id |-> id, area |-> area, points |-> points]

NoStats ==
  [total |-> 0, filtered_by_min_area |-> 0, filtered_by_max_area |-> 0,
   filtered_by_ratio |-> 0, filtered_by_points |-> 0, kept |-> 0]

\* the body of the loop of filter_contours for one contour: the counter it
\* increments
FilterVerdict_PointsFirst(contour, min_area, max_area, image_area) ==
  IF contour.points < 3 THEN "filtered_by_points"
  ELSE IF contour.area < min_area THEN "filtered_by_min_area"
  ELSE IF contour.area > max_area THEN "filtered_by_max_area"
  ELSE IF 2 * contour.area >= image_area THEN "filtered_by_ratio"
  ELSE "kept"

FilterVerdict(contour, min_area, max_area, image_area) ==
  IF contour.area < min_area THEN "filtered_by_min_area"
  ELSE IF contour.area > max_area THEN "filtered_by_max_area"
  ELSE IF 2 * contour.area > image_area THEN "filtered_by_ratio"
  ELSE IF contour.points < 3 THEN "filtered_by_points"
  ELSE "kept"

RECURSIVE FilterFrom(_, _, _, _, _, _)
FilterFrom(found, k, acc, min_area, max_area, image_area) ==
  IF k > Len(found) THEN acc
  ELSE LET verdict == FilterVerdict(found[k], min_area, max_area,
                                    image_area)
       IN FilterFrom(found, k + 1,
                     [filtered |-> IF verdict = "kept"
                                     THEN Append(acc.filtered, found[k])
                                     ELSE acc.filtered,
                      stats |-> [acc.stats EXCEPT ![verdict] = @ + 1]],
                     min_area, max_area, image_area)

\* filter_contours: the pair (filtered, stats)
FilterContours(found, min_area, max_area, image_area) ==
  FilterFrom(found, 1,
             [filtered |-> <<>>,
              stats |-> [NoStats EXCEPT !.total = Len(found)]],
             min_area, max_area, image_area)

\* extract_contour_properties: the measures of a contour, each standing for
\* the number OpenCV computes; boundingRect of a contour is at least 1 x 1
ExtractContourProperties(contour, shape_id) ==
  [id |-> shape_id, contour |-> contour.id,
   area |-> contour.area, perimeter |-> <<"perimeter", contour.id>>,
   bounding_box |-> [width |-> 1, height |-> 1],
   aspect_ratio |-> <<"aspect_ratio", contour.id>>,
   extent |-> <<"extent", contour.id>>,
   solidity |-> <<"solidity", contour.id>>,
   num_vertices |-> <<"num_vertices", contour.id>>,
   color_rgb |-> <<"color_rgb", contour.id>>,
   color_name |-> <<"color_name", contour.id>>,
   color_hex |-> <<"color_hex", contour.id>>,
   contour_points |-> contour.points]

\* the properties both feature builders copy from the shape
ShapeProperties(shape, idx) ==
  [shape_id |-> idx, area |-> shape.area, perimeter |-> shape.perimeter,
   aspect_ratio |-> shape.aspect_ratio, solidity |-> shape.solidity,
   extent |-> shape.extent, num_vertices |-> shape.num_vertices,
   color_rgb |-> shape.color_rgb, color_name |-> shape.color_name,
   color_hex |-> shape.color_hex, mapElementType |-> "shape",
   name |-> <<"Shape", idx>>, start_date |-> "1700-01-01",
   end_date |-> "2026-01-01"]

ShapeFeature(shape, idx, flag, space) ==
  [type |-> "Feature",
   properties |-> (flag :> TRUE) @@ ShapeProperties(shape, idx),
   geometry |-> [type |-> "Polygon", space |-> space, contour |-> shape.contour]]

\* the positions of keep among 1..n, ascending
Positions(n, keep) == SelectSeq([i \in 1..n |-> i], LAMBDA i : i \in keep)

\* create_normalized_geojson_features
CreateNormalizedGeojsonFeatures(shapes) ==
  LET kept == Positions(Len(shapes),
                        {i \in DOMAIN shapes :
                           ~(\/ shapes[i].bounding_box.width = 0
                             \/ shapes[i].bounding_box.height = 0)})
  IN <<[type |-> "FeatureCollection",
        features |-> [r \in DOMAIN kept |->
                        ShapeFeature(shapes[kept[r]], kept[r],
                                     "is_normalized", "unit")]]>>

\* create_pixel_geojson_features
CreatePixelGeojsonFeatures(shapes) ==
  LET kept == Positions(Len(shapes),
                        {i \in DOMAIN shapes :
                           ~(shapes[i].contour_points < 3)})
  IN <<[type |-> "FeatureCollection",
        features |-> [r \in DOMAIN kept |->
                        ShapeFeature(shapes[kept[r]], kept[r],
                                     "is_pixel_space", "pixel")]]>>

\* extract_shapes from detect_contours on, as tasks.py calls it (no text
\* regions): filter, measure, number and build both feature lists
ExtractShapesFrom(found, min_area, max_area, image_area) ==
  LET f == FilterContours(found, min_area, max_area, image_area)
      shapes == [i \in DOMAIN f.filtered |->
                   ExtractContourProperties(f.filtered[i], i)]
  IN [total_shapes |-> Len(shapes), shapes |-> shapes,
      normalized_features |-> CreateNormalizedGeojsonFeatures(shapes),
      pixel_features |-> CreatePixelGeojsonFeatures(shapes)]

\* the quality metrics of a matrix transform: none for TPS, the error always,
\* the inlier count when RANSAC gave a mask
Metrics(use_tps, has_inliers) ==
  IF use_tps THEN <<>>
  ELSE IF has_inliers
         THEN [reprojection_error_m |-> "error", ransac_inliers |-> "inliers"]
  ELSE [reprojection_error_m |-> "error"]

\* lines 488-499: the properties written on a georeferenced feature
GeorefProperties(props, transform_method, metrics) ==
  metrics @@ [is_pixel_space |-> FALSE, is_georeferenced |-> TRUE,
              crs |-> "EPSG:4326", transform_method |-> transform_method]
          @@ props

\* lines 463-518 once the transform is built: the collections returned and
\* the argument as the call leaves it
GeoreferenceCollections_SharedProps(colls, transform_method, metrics) ==
  LET moved(fc) ==
        [f \in DOMAIN fc.features |->
           [type |-> "Feature",
            properties |-> GeorefProperties(fc.features[f].properties,
                                            transform_method, metrics),
            geometry |-> [fc.features[f].geometry EXCEPT !.space = "wgs84"]]]
      kept == Positions(Len(colls),
                        {c \in DOMAIN colls : colls[c].features # <<>>})
  IN [out |-> [r \in DOMAIN kept |->
                 [type |-> "FeatureCollection",
                  features |-> moved(colls[kept[r]])]],
      source |-> [c \in DOMAIN colls |->
                    [colls[c] EXCEPT !.features =
                       [f \in DOMAIN @ |->
                          [@[f] EXCEPT !.properties =
                             GeorefProperties(@, transform_method,
                                              metrics)]]]]]

GeoreferenceCollections(colls, transform_method, metrics) ==
  LET moved(fc) ==
        [f \in DOMAIN fc.features |->
           [type |-> "Feature",
            properties |-> GeorefProperties(fc.features[f].properties,
                                            transform_method, metrics),
            geometry |-> [fc.features[f].geometry EXCEPT !.space = "wgs84"]]]
      kept == Positions(Len(colls),
                        {c \in DOMAIN colls : colls[c].features # <<>>})
  IN [out |-> [r \in DOMAIN kept |->
                 [type |-> "FeatureCollection",
                  features |-> moved(colls[kept[r]])]],
      source |-> colls]

ShapeInit ==
  /\ NoJob
  /\ georef = NoCall
  /\ snap = NoSnap
  /\ city_lookup = NoCall
  /\ masks = NoCall
  /\ colors = NoCall
  /\ cancel = NoCall
  /\ \E n \in 0..MaxContours :
       \E areas \in [1..n -> Areas], points \in [1..n -> ContourLengths],
          min_area \in MinAreas, max_area \in MaxAreas,
          image_area \in ImageAreas :
         contours = [stage |-> "detected",
                     contours |-> [i \in 1..n |->
                                     Contour(i, areas[i], points[i])],
                     min_area |-> min_area, max_area |-> max_area,
                     image_area |-> image_area,
                     filtered |-> <<>>, stats |-> NoStats,
                     result |-> <<>>, georef |-> <<>>]

\* filtered_contours, filter_stats = filter_contours(...)
FilterContoursCall ==
  /\ contours.stage = "detected"
  /\ LET f == FilterContours(contours.contours, contours.min_area,
                             contours.max_area, contours.image_area)
     IN contours' = [contours EXCEPT !.stage = "filtered",
                                     !.filtered = f.filtered,
                                     !.stats = f.stats]
  /\ UNCHANGED <<job, cancel, georef, snap, city_lookup, masks, colors>>

\* the rest of extract_shapes
BuildShapeFeatures ==
  /\ contours.stage = "filtered"
  /\ contours' = [contours EXCEPT
                    !.stage = "built",
                    !.result = <<ExtractShapesFrom(contours.contours,
                                                   contours.min_area,
                                                   contours.max_area,
                                                   contours.image_area)>>]
  /\ UNCHANGED <<job, cancel, georef, snap, city_lookup, masks, colors>>

\* georeference_features_with_sift_points on the pixel-space features, with
\* enough point pairs for the transform it builds
GeoreferenceShapes ==
  /\ contours.stage = "built"
  /\ \E use_tps \in BOOLEAN, use_homography \in BOOLEAN,
        has_inliers \in BOOLEAN :
       contours' = [contours EXCEPT
                      !.stage = "georeferenced",
                      !.georef = <<GeoreferenceCollections(
                                     contours.result[1].pixel_features,
                                     TransformLabel(use_tps, use_homography),
                                     Metrics(use_tps, has_inliers))>>]
  /\ UNCHANGED <<job, cancel, georef, snap, city_lookup, masks, colors>>

ShapeNext == FilterContoursCall \/ BuildShapeFeatures \/ GeoreferenceShapes

ShapeSpec == ShapeInit /\ [][ShapeNext]_vars

(* ======================= properties of the job ======================== *)
Terminal == {"SUCCESS", "FAILURE"}

\* the state a client of the status endpoint sees
Observed == GetProcessingStatus.state

\* the feature a sink call carries (calls of the pipeline carry one)
CallFeature(call) == call.data.features[1]
FeaturesOf(calls) == [i \in 1..Len(calls) |-> CallFeature(calls[i])]
IsPointCall(call) == CallFeature(call).kind = "point"
IsZoneCall(call) ==
  CallFeature(call).kind = "zone" /\ CallFeature(call).coords = "unit"
IsGeorefCall(call) == CallFeature(call).coords = "wgs84"
IsShapeCall(call) == CallFeature(call).kind = "shape"

\* exceptions that leave the try block of the task
Fatal == {"uuid", "tempfile", "write", "decode", "extension", "ocr", "colors",
          "shapes", "finalize"}

AllEnabled ==
  enable_color_extraction /\ enable_shapes_extraction /\ enable_text_extraction

(* C1: the state a client observes moves PENDING -> PROGRESS* -> SUCCESS or
   FAILURE only: it never goes back, the task is over exactly when the state
   is terminal, SUCCESS exactly when the task returned its result, FAILURE
   exactly when it raised, and once the state is terminal neither the state
   nor the list of progress updates changes again. *)
C1_JobStateMachine ==
  [][ /\ Observed = "PENDING" => Observed' \in {"PENDING", "PROGRESS"} \cup Terminal
      /\ Observed = "PROGRESS" => Observed' \in {"PROGRESS"} \cup Terminal
      /\ Observed \in Terminal => Observed' = Observed /\ updates' = updates
      /\ (pc' = "done") <=> (Observed' \in Terminal)
      /\ (Observed' = "SUCCESS") <=> (result' /= <<>>)
      /\ (Observed' = "FAILURE") <=> (pc' = "done" /\ exc' /= "none")
    ]_vars

\* a job that went through its progress updates and succeeded
C1_Witness ==
  /\ Observed = "SUCCESS"
  /\ Len(updates) >= 5
  /\ pc = "done"

(* C2: progress is reported once per stage: the updates follow the stage
   order save, load, text, color, shapes, cleanup without repetition, the
   stage the task is working in is the one reported last, and a successful
   job has reported every stage (shapes only when enabled), so at least 5
   updates precede SUCCESS when all stages are enabled. *)
StageStatus ==
  << "Saving uploaded file", "Loading and validating image",
     "Extracting text with EasyOCR", "Extracting colors from image",
     "Extracting shapes from image", "Cleaning up and finalizing" >>

StageIndex(status) ==
  IF \E i \in DOMAIN StageStatus : StageStatus[i] = status
    THEN CHOOSE i \in DOMAIN StageStatus : StageStatus[i] = status
    ELSE 0

\* the stage whose body the task is executing, 0 between stages
StageOfPc ==
  CASE pc \in {"create_temp", "write_temp"} -> 1
    [] pc = "load" -> 2
    [] pc \in {"text", "cities"} -> 3
    [] pc \in {"color", "georef"} -> 4
    [] pc = "shapes_work" -> 5
    [] pc = "cleanup" -> 6
    [] OTHER -> 0

C2_ProgressOncePerStage ==
  /\ \A i \in 1..(Len(updates) - 1) :
       /\ StageIndex(updates[i].status) > 0
       /\ StageIndex(updates[i].status) < StageIndex(updates[i + 1].status)
  /\ StageOfPc > 0 =>
       /\ updates /= <<>>
       /\ StageIndex(updates[Len(updates)].status) = StageOfPc
  /\ state = "SUCCESS" =>
       /\ Len(updates) = IF enable_shapes_extraction THEN 6 ELSE 5
       /\ AllEnabled => Len(updates) >= 5

C2_Witness ==
  /\ state = "SUCCESS"
  /\ AllEnabled
  /\ Len(updates) = 6

(* C3 as stated: the sink is called for color zones first, then for shapes,
   then for place points. *)
ClaimedRank(call) ==
  IF IsPointCall(call) THEN 3 ELSE IF IsShapeCall(call) THEN 2 ELSE 1

StepRank(call) ==
  IF IsPointCall(call) THEN 1
  ELSE IF IsZoneCall(call) THEN 2
  ELSE IF IsShapeCall(call) THEN 4
  ELSE 3

C4_OneFeaturePerCall ==
  /\ \A i \in DOMAIN sink :
       /\ sink[i].is_feature_collection = FALSE
       /\ sink[i].data.type = "FeatureCollection"
       /\ Len(sink[i].data.features) = 1
       /\ sink[i].map_id = map_id
  /\ returned.extract_colors /= <<>> =>
       FeaturesOf(SelectSeq(sink, IsZoneCall))
         = Flatten(returned.extract_colors[1].normalized)
  /\ returned.extract_shapes /= <<>> =>
       FeaturesOf(SelectSeq(sink, IsShapeCall))
         = Flatten(returned.extract_shapes[1].normalized)
  /\ (\E i \in DOMAIN sink : IsGeorefCall(sink[i])) =>
       FeaturesOf(SelectSeq(sink, IsGeorefCall))
         = Flatten(Georeferenced(pixel_features, FALSE, TRUE))

C4_Witness ==
  /\ Len(SelectSeq(sink, IsShapeCall)) >= 2
  /\ Len(SelectSeq(sink, IsZoneCall)) >= 2
  /\ \E i \in DOMAIN sink : IsPointCall(sink[i])

(* C5: a stage whose enable flag is False never calls its extractor; with
   all three flags False none of extract_text, extract_colors and
   extract_shapes is called. *)
C5_DisabledStagesNotCalled ==
  /\ ~enable_text_extraction => "extract_text" \notin called
  /\ ~enable_color_extraction => "extract_colors" \notin called
  /\ ~enable_shapes_extraction => "extract_shapes" \notin called

(* C6: in a successful job the result's color_result is the value
   extract_colors returned when color is enabled, its shapes_result is the
   value extract_shapes returned when shapes are enabled, with or without
   control points, and extractions_performed.georeferencing is True exactly
   when both point lists are non-empty. *)
C6_ResultEchoesExtractors ==
  state = "SUCCESS" =>
    /\ enable_color_extraction =>
         <<result[1].color_result>> = returned.extract_colors
    /\ enable_shapes_extraction =>
         <<result[1].shapes_result>> = returned.extract_shapes
    /\ result[1].georeferencing <=> (npix > 0 /\ ngeo > 0)

(* C7: once the temporary file has been created the task never ends, by
   returning or by raising, while the file still exists. *)
C7_TempFileDeleted == pc = "done" => ~tmp_exists

(* C8 as stated: an exception raised by the load, text, color,
   georeferencing, shapes or cleanup stage ends the job in FAILURE with that
   error, recorded once. *)
StageErrors == {"decode", "extension", "ocr", "colors", "georef_points",
                "georef_solver", "shapes", "finalize"}

C8_AnyStageErrorFails ==
  (pc = "done" /\ raised \cap StageErrors /= {}) =>
    /\ state = "FAILURE"
    /\ info.status \in raised \cap StageErrors
    /\ failures = 1

(* C8 amended: an exception raised by the load, text (extract_text), color,
   shapes or cleanup stage ends the job in FAILURE carrying that error,
   FAILURE is recorded exactly once, and the rows committed before the
   exception stay committed (the list of rows only grows); an exception of
   the georeferencing stage is caught and logged and does not fail the job. *)
PropagatingStageErrors ==
  {"decode", "extension", "ocr", "colors", "shapes", "finalize"}

C8_StageErrorFails ==
  [][ /\ IsPrefix(db, db')
      /\ (pc' = "done" /\ raised' \cap PropagatingStageErrors /= {}) =>
           /\ state' = "FAILURE"
           /\ info'.status = exc'
           /\ exc' \in raised' \cap PropagatingStageErrors
           /\ failures' = 1
      /\ (pc' = "done" /\ exc' \in {"georef_points", "georef_solver"}) =>
           state' /= "FAILURE"
    ]_vars

\* the shapes stage raised after earlier stages committed rows
C8_Witness ==
  /\ state = "FAILURE"
  /\ info.status = "shapes"
  /\ Len(db) >= 2

(* C9: when georeferencing is requested with fewer than 3 point pairs or
   with lists of unequal length, no georeferenced feature reaches the sink,
   the color stage's own features have been handed to the sink, the shapes
   stage hands over its own when it runs, the georeferencing error is not
   the job's error, and the job succeeds unless another step raises. *)
InsufficientControlPoints ==
  GeorefRequested(npix, ngeo) /\ (npix /= ngeo \/ npix < 3)

C9_GeorefFailureIsLocal ==
  InsufficientControlPoints =>
    /\ \A i \in DOMAIN sink : ~IsGeorefCall(sink[i])
    /\ exc \notin {"georef_points", "georef_solver"}
    /\ returned.extract_colors /= <<>> =>
         /\ color_result = returned.extract_colors[1]
         /\ FeaturesOf(SelectSeq(sink, IsZoneCall))
              = Flatten(color_result.normalized)
    /\ returned.extract_shapes /= <<>> =>
         FeaturesOf(SelectSeq(sink, IsShapeCall))
           = Flatten(shapes_result.normalized)
    /\ (pc = "done" /\ raised \cap Fatal = {}) => state = "SUCCESS"

C9_Witness ==
  /\ InsufficientControlPoints
  /\ "georef_points" \in raised
  /\ state = "SUCCESS"
  /\ \E i \in DOMAIN sink : IsZoneCall(sink[i])
  /\ \E i \in DOMAIN sink : IsShapeCall(sink[i])

(* C10: when extract_text or find_first_city raises with text extraction
   enabled, the text stage is skipped and the job goes on: unless a later
   step raises, the color stage runs and the job ends in SUCCESS. *)
C10_TextFailureSkipsStage ==
  (/\ pc = "done"
   /\ enable_text_extraction
   /\ raised \cap {"ocr", "gazetteer"} /= {}
   /\ raised \cap (Fatal \ {"ocr"}) = {}) =>
    /\ state = "SUCCESS"
    /\ "extract_colors" \in called

\* C11: a job whose extension is not allowed fails before any decode of the
\* uploaded bytes is attempted, and an extension the upload endpoint accepts
\* is never rejected by the pipeline's own extension check
C11_ExtensionCheckedBeforeDecode ==
  /\ ~ValidateFileExtension(filename_ext) => ~decoded
  /\ UploadAllows(filename_ext) => "extension" \notin raised

\* C12: for a non-empty list of collections and N matched control-point
\* pairs, N < 3 raises; otherwise use_tps selects TPS, else use_homography
\* with N >= 4 selects homography, else affine; no other input (unmatched
\* lists) yields a transform
Transforms == {"TPS", "homography", "affine"}

C12_TransformSelection ==
  (georef.outcome \notin {"none", "pending"} /\ georef.colls # <<>>) =>
    LET N == georef.np
    IN /\ georef.np = georef.ng =>
            georef.outcome =
              IF N < 3 THEN "error"
              ELSE IF georef.use_tps THEN "TPS"
              ELSE IF georef.use_homography /\ N >= 4 THEN "homography"
              ELSE "affine"
       /\ georef.np # georef.ng => georef.outcome \notin Transforms

\* three matched pairs with the default flags: the fall-back to affine
C12_Witness ==
  /\ georef.outcome = "affine"
  /\ georef.colls # <<>>
  /\ georef.np = 3 /\ georef.ng = 3
  /\ ~georef.use_tps /\ georef.use_homography

\* the claims' reading of the snapping rule: a vertex is coastal when it is
\* within sift_proximity of a marker and within max_snap_distance of the
\* reference coastline
NearAMarker(v) ==
  \E m \in 1..Len(snap.markers) :
    Dist2(v, snap.markers[m]) <= sift_proximity_km * sift_proximity_km
Coastal(v) ==
  /\ NearAMarker(v)
  /\ Dist2(v, <<v[1], 0>>) <= max_snap_distance_km * max_snap_distance_km
Expected(v) == IF Coastal(v) THEN <<v[1], 0>> ELSE v
Snapped == snap.stage = "emitted" /\ snap.sel # <<>>

\* C13: the coordinates _snap_linestring_coordinates_selective returns are
\* those of the input with exactly the coastal vertices replaced by their
\* nearest reference point and every other vertex unchanged (consecutive equal
\* points appearing once): no vertex is moved unless it is near a marker and
\* within max_snap_distance of the reference
C13_SnapOnlyCoastalVertices ==
  Snapped =>
    LET in == snap.feature.coords
        out == snap.sel[1].snapped_coords
        want == [i \in 1..Len(in) |-> Expected(in[i])]
    IN /\ \A i \in 1..Len(in) : \E k \in 1..Len(out) : out[k] = want[i]
       /\ \A k \in 1..Len(out) : \E i \in 1..Len(in) : out[k] = want[i]
       /\ out = RemoveDuplicateConsecutivePoints(want)

\* a line with a moved coastal vertex, a vertex near a marker but too far
\* from the reference, and a vertex away from every marker
C13_Witness ==
  /\ Snapped
  /\ LET in == snap.feature.coords
     IN /\ \E i \in 1..Len(in) : Coastal(in[i]) /\ Expected(in[i]) # in[i]
        /\ \E i \in 1..Len(in) : NearAMarker(in[i]) /\ ~Coastal(in[i])
        /\ \E i \in 1..Len(in) : ~NearAMarker(in[i]) /\ in[i][2] > 0

\* C14: for a polygon whose vertices are each coastal or inland, the
\* points_snapped property equals the number of coastal vertices that were
\* moved, the vertex that opens and closes the ring counted once
C14_PointsSnappedCountsVertices ==
  (/\ Snapped
   /\ snap.feature.geom_type = "Polygon"
   /\ snap.path = "snapped"
   /\ \A i \in 1..Len(snap.feature.coords) :
        Coastal(snap.feature.coords[i]) \/ ~NearAMarker(snap.feature.coords[i]))
  => snap.out[1].props[1].points_snapped =
       Cardinality({i \in 1..(Len(snap.feature.coords) - 1) :
                      Expected(snap.feature.coords[i]) # snap.feature.coords[i]})

\* C15: applying refine_coastline_features to its own output returns the
\* features of the first application
C15_SnapIdempotent ==
  (snap.stage = "emitted" /\ snap.pass = 2) => snap.out = snap.first

\* C16: when the snapped geometry is invalid and buffer(0) does not make it
\* valid (or raises), the original feature is emitted unchanged and counted
\* as skipped; whatever is emitted in place of the input is valid
C16_UnrepairedKeepsOriginal ==
  snap.stage = "emitted" =>
    /\ snap.path = "unrepaired" =>
         /\ snap.out[1] = snap.feature
         /\ snap.counted = "skipped"
    /\ snap.out[1] # snap.feature =>
         /\ IsValid(snap.out[1].geom_type, snap.out[1].coords)
         /\ snap.counted = "snapped"

\* a first application whose snapped ring is invalid and stays unrepaired
C16_Witness ==
  /\ snap.stage = "emitted"
  /\ snap.pass = 1
  /\ snap.path = "unrepaired"
  /\ snap.sel[1].num_snapped > 0
  /\ ~IsValid(snap.feature.geom_type, snap.sel[1].snapped_coords)

\* the point calls of the sink made for token i of the OCR text
PointCallsFor(i) ==
  {k \in 1..Len(sink) : IsPointCall(sink[k]) /\ CallFeature(sink[k]).idx = i}

\* C17: for every token without a gazetteer match the text stage persists
\* exactly one point feature (found = false, lon = lat = 0, the token as
\* name) and goes on with the next token: once the text stage is over every
\* token of the OCR text has its one point feature, and when a lookup missed
\* one of them is the not-found point
C17_MissPersistsNotFoundPoint ==
  (pc = "report_color" /\ enable_text_extraction) =>
    /\ \A i \in 1..Len(extracted_text) : Cardinality(PointCallsFor(i)) = 1
    /\ "candidate" \in raised =>
         \E k \in 1..Len(sink) :
           /\ IsPointCall(sink[k])
           /\ ~CallFeature(sink[k]).show
           /\ CallFeature(sink[k]).coords = "0,0"
           /\ CallFeature(sink[k]).name = TokenName(CallFeature(sink[k]).idx)

\* C18: the point feature persisted for a token with an exact gazetteer match
\* is flagged as found (show = true), carries the gazetteer's canonical name
\* and sits at the gazetteer's coordinates
C18_HitIsFlaggedFound ==
  \A k \in 1..Len(sink) :
    (IsPointCall(sink[k]) /\ CallFeature(sink[k]).coords = "gazetteer") =>
      /\ CallFeature(sink[k]).show
      /\ CallFeature(sink[k]).name = CanonicalName(CallFeature(sink[k]).idx)

\* C19: among several gazetteer candidates find_first_city returns one of
\* largest population (a missing population counting as 0) and, among those
\* of largest population, the one whose canonical name comes first in
\* lexicographic order, whatever the order the candidates were loaded in
C19_LargestPopulationThenName ==
  (city_lookup.outcome = "returned" /\ city_lookup.candidates # <<>>) =>
    LET cs == city_lookup.candidates
        best == city_lookup.best[1]
        Pop(c) == IF c.population = <<>> THEN 0 ELSE c.population[1]
    IN /\ \A j \in 1..Len(cs) : Pop(cs[j]) <= Pop(best)
       /\ \A j \in 1..Len(cs) : Pop(cs[j]) = Pop(best) => best.name <= cs[j].name

\* C20: the layer masks are pairwise disjoint, their union lies inside the
\* validity mask, and a pixel of the validity mask is in exactly one layer,
\* that of a nearest center, when some center is within mask_deltaE of it
\* and in no layer otherwise
C20_LayersExclusive ==
  masks.outcome = "returned" =>
    LET L == masks.layers
        d == masks.dist_stack
        Ks == 1..masks.K
    IN /\ \A k1, k2 \in Ks : k1 # k2 => L[k1] \cap L[k2] = {}
       /\ \A k \in Ks : L[k] \subseteq masks.opaque_mask
       /\ \A p \in masks.opaque_mask :
            IF \E k \in Ks : d[p][k] <= masks.mask_deltaE
              THEN \E k \in Ks :
                     /\ p \in L[k]
                     /\ \A j \in Ks : d[p][k] <= d[p][j]
                     /\ \A j \in Ks \ {k} : p \notin L[j]
              ELSE \A k \in Ks : p \notin L[k]

\* two centers within mask_deltaE of the same opaque pixel, a second pixel
\* left unassigned
C20_Witness ==
  /\ masks.outcome = "returned"
  /\ masks.K = 2
  /\ \E p \in masks.opaque_mask :
       /\ masks.dist_stack[p][1] <= masks.mask_deltaE
       /\ masks.dist_stack[p][2] <= masks.mask_deltaE
       /\ \E k \in 1..2 : p \in masks.layers[k]
  /\ \E p \in masks.opaque_mask : \A k \in 1..2 : p \notin masks.layers[k]

\* C21: the color layers come out by descending ratio, equal ratios by
\* ascending bin_id (extract_colors emits one layer per entry of the list
\* select_colors_by_ratio_and_distance returns, in the order of that list, and
\* numbers them in that order)
C21_LayersByRatioThenBinId ==
  colors.stage = "selected" =>
    \A i, j \in DOMAIN colors.selected :
      i < j => \/ colors.selected[i].ratio > colors.selected[j].ratio
               \/ /\ colors.selected[i].ratio = colors.selected[j].ratio
                  /\ colors.selected[i].bin_id < colors.selected[j].bin_id

\* C22: a job revoked after the color stage has persisted features ends in
\* FAILURE with reason "cancelled", the sink is not called after the request,
\* and the rows committed before the request are still there
C22_CancelledJobFails ==
  (cancel.outcome = "requested" /\ pc = "done") =>
    /\ state = "FAILURE"
    /\ info.status = "cancelled"
    /\ Len(sink) = cancel.calls
    /\ IsPrefix(cancel.rows, db)

\* C23: extract_colors returns one pixel-space feature and one unit-box
\* feature for every selected center whose mask is non-empty and yields a
\* geometry, both lists in the order of those centers, and none for the others
C23_PixelAndNormalizedPerLayer ==
  colors.stage = "emitted" =>
    LET with_geom == SelectSeq([k \in DOMAIN colors.selected |-> k],
                               LAMBDA k : colors.mask[k] = "geom")
    IN /\ Len(colors.out.normalized_features) = Len(with_geom)
       /\ Len(colors.out.pixel_features) = Len(with_geom)
       /\ \A r \in DOMAIN with_geom :
            colors.out.normalized_features[r].features[1].color_name[1]
              = colors.selected[with_geom[r]].lab_center

\* the features of a list of FeatureCollections, in order
FeaturesIn(colls) == Flatten([c \in DOMAIN colls |-> colls[c].features])

\* C24: every pixel-space feature the shape extractor builds carries
\* is_pixel_space = true; every feature georeference_features_with_sift_points
\* returns carries crs = "EPSG:4326", is_georeferenced = true and
\* is_pixel_space = false and every other property of the feature it was made
\* from, unchanged; and the features passed in are left as they were
C24_PixelAndGeorefFlags ==
  /\ contours.stage \in {"built", "georeferenced"} =>
       \A i \in DOMAIN FeaturesIn(contours.result[1].pixel_features) :
         FeaturesIn(contours.result[1].pixel_features)[i]
           .properties.is_pixel_space = TRUE
  /\ contours.stage = "georeferenced" =>
       LET source == FeaturesIn(contours.result[1].pixel_features)
           out == FeaturesIn(contours.georef[1].out)
       IN /\ Len(out) = Len(source)
          /\ \A i \in DOMAIN out :
               /\ out[i].properties.crs = "EPSG:4326"
               /\ out[i].properties.is_georeferenced = TRUE
               /\ out[i].properties.is_pixel_space = FALSE
               /\ \A k \in DOMAIN source[i].properties \ {"is_pixel_space"} :
                    /\ k \in DOMAIN out[i].properties
                    /\ out[i].properties[k] = source[i].properties[k]
          /\ contours.georef[1].source = contours.result[1].pixel_features

\* two shapes were georeferenced
C24_Witness ==
  /\ contours.stage = "georeferenced"
  /\ Len(FeaturesIn(contours.georef[1].out)) = 2
  /\ FeaturesIn(contours.georef[1].out)[2].properties.shape_id = 2

RECURSIVE SumRatios(_, _)
SumRatios(entries, S) ==
  IF S = {} THEN 0
  ELSE LET i == CHOOSE x \in S : TRUE
       IN entries[i].ratio + SumRatios(entries, S \ {i})

SortedByRatio(entries) ==
  \A k, l \in DOMAIN entries : k < l => entries[k].ratio >= entries[l].ratio

\* C25: merge_similar_colors partitions its input: every input entry is
\* absorbed into exactly one output entry, the ratio of an output entry is the
\* sum of the ratios it absorbed, its center is that of an absorbed entry of
\* highest ratio, the output is sorted by descending ratio, and for an input
\* sorted by descending ratio no two output centers are closer than the
\* threshold
C25_MergePartitions ==
  colors.stage = "merged" =>
    LET sel == colors.selected
        out == colors.merged
        g == colors.groups
    IN /\ Len(out) = Len(g)
       /\ \A i \in DOMAIN sel :
            Cardinality({k \in DOMAIN g : i \in g[k].members}) = 1
       /\ \A k \in DOMAIN g : g[k].members \subseteq DOMAIN sel
       /\ \A k \in DOMAIN out :
            /\ out[k].ratio = SumRatios(sel, g[k].members)
            /\ \E m \in g[k].members :
                 /\ out[k].lab_center = sel[m].lab_center
                 /\ out[k].bin_id = sel[m].bin_id
                 /\ \A o \in g[k].members : sel[m].ratio >= sel[o].ratio
       /\ SumRatios(out, DOMAIN out) = SumRatios(sel, DOMAIN sel)
       /\ SortedByRatio(out)
       /\ SortedByRatio(sel) =>
            \A k, l \in DOMAIN out :
              k # l => DeltaE(out[k].lab_center, out[l].lab_center)
                         >= colors.threshold

\* an unsorted list of three entries was merged into two: one group of two
\* whose second entry has the higher ratio, and one entry left alone
C25_Witness ==
  /\ colors.stage = "merged"
  /\ Len(colors.selected) = 3
  /\ Len(colors.merged) = 2
  /\ \E k \in DOMAIN colors.groups :
       /\ colors.groups[k].members = {1, 2}
       /\ colors.selected[2].ratio > colors.selected[1].ratio
       /\ colors.merged[k].bin_id = 2

\* positions in dom (the bins by descending ratio) of the entries selected
SelectedPositions ==
  {p \in DOMAIN colors.dom :
     \E k \in DOMAIN colors.selected :
       colors.selected[k].bin_id = colors.dom[p].bin_id}

DominantPositions ==
  {p \in DOMAIN colors.dom : colors.dom[p].ratio >= colors.dominant_ratio}

\* the dominants, or the top bin when no bin reaches dominant_ratio
BasePositions ==
  IF DominantPositions = {} THEN {p \in DOMAIN colors.dom : p = 1}
  ELSE DominantPositions

AccentCandidates ==
  {p \in DOMAIN colors.dom :
     /\ colors.dom[p].ratio >= colors.accent_min_ratio
     /\ colors.dom[p].ratio < colors.dominant_ratio}

\* C26: with merging off and no fall-back, the selection holds exactly the
\* bins of ratio >= dominant_ratio (the top bin when there is none) and the
\* bins of ratio in [accent_min_ratio, dominant_ratio) that, taken by
\* descending ratio, are at least accent_min_deltaE away from every entry
\* selected before them; it is not empty when there is a bin
C26_DominantsAndAccents ==
  (colors.stage = "selected" /\ ~colors.merge_similar
     /\ colors.min_colors_fallback = None) =>
    /\ Len(colors.selected) = Cardinality(SelectedPositions)
    /\ \A k \in DOMAIN colors.selected :
         \E p \in DOMAIN colors.dom : colors.selected[k] = colors.dom[p]
    /\ BasePositions \subseteq SelectedPositions
    /\ SelectedPositions \subseteq BasePositions \cup AccentCandidates
    /\ \A p \in AccentCandidates \ BasePositions :
         p \in SelectedPositions <=>
           \A q \in BasePositions
                    \cup {a \in SelectedPositions \ BasePositions : a < p} :
             DeltaE(colors.dom[p].lab_center, colors.dom[q].lab_center)
               >= colors.accent_min_deltaE
    /\ colors.dom # <<>> => colors.selected # <<>>

\* one dominant, one accent taken, and one candidate left out because it is
\* too close to the accent taken before it, though far from the dominant
C26_Witness ==
  /\ colors.stage = "selected" /\ ~colors.merge_similar
  /\ colors.min_colors_fallback = None
  /\ DominantPositions = {1}
  /\ SelectedPositions = {1, 2}
  /\ 3 \in AccentCandidates
  /\ DeltaE(colors.dom[3].lab_center, colors.dom[1].lab_center)
       >= colors.accent_min_deltaE

\* C27: with min_colors_fallback = m, merging off and at least m bins, the
\* selection returned holds at least m colors
C27_FallbackMeetsFloor ==
  (colors.stage = "selected" /\ ~colors.merge_similar
     /\ colors.min_colors_fallback # None
     /\ Len(colors.dom) >= colors.min_colors_fallback[1]) =>
    Len(colors.selected) >= colors.min_colors_fallback[1]

\* the condition of C28 on one contour of the call
C28_Keeps(c) ==
  /\ contours.min_area <= c.area
  /\ c.area <= contours.max_area
  /\ 2 * c.area <= contours.image_area
  /\ c.points >= 3

\* C28: filter_contours keeps a contour iff min_area <= area <= max_area,
\* area / image_area <= 0.5 and it has at least 3 points; the kept contours
\* keep their input order; total is the sum of kept and the four filtered
\* counters, and kept is the length of the list returned
C28_FilterContours ==
  contours.stage \in {"filtered", "built", "georeferenced"} =>
    /\ contours.filtered = SelectSeq(contours.contours, C28_Keeps)
    /\ contours.stats.total = Len(contours.contours)
    /\ contours.stats.total =
         contours.stats.kept + contours.stats.filtered_by_min_area
           + contours.stats.filtered_by_max_area
           + contours.stats.filtered_by_ratio
           + contours.stats.filtered_by_points
    /\ contours.stats.kept = Len(contours.filtered)

\* a call that kept a contour covering exactly half of the image and dropped
\* one of fewer than 3 points whose area passes
C28_Witness ==
  /\ contours.stage = "filtered"
  /\ Len(contours.contours) = 2
  /\ contours.stats.kept = 1
  /\ contours.stats.filtered_by_points = 1
  /\ \E i \in DOMAIN contours.filtered :
       2 * contours.filtered[i].area = contours.image_area

\* C29: transform_method on every georeferenced feature names the transform
\* that was applied to its coordinates: "affine" whenever the affine solver
\* built the matrix (the fall-back for fewer than 4 pairs included),
\* "homography" only when the homography solver did, "TPS" only when TPS did
C29_LabelNamesTransform ==
  \A c \in DOMAIN georef.out : \A j \in DOMAIN georef.out[c] :
    georef.out[c][j].transform_method = georef.outcome

\* the list of features the persistence run of a sink call was given
C30_RunOf(call) ==
  IF IsPointCall(call) THEN <<CallFeature(call)>>
  ELSE IF IsGeorefCall(call)
         THEN Flatten(Georeferenced(pixel_features, FALSE, TRUE))
  ELSE IF IsZoneCall(call) THEN Flatten(returned.extract_colors[1].normalized)
  ELSE Flatten(returned.extract_shapes[1].normalized)

\* C30: a sink call that raises is contained: the calls for every remaining
\* feature of the run follow it in list order, the exception never leaves
\* the try block of the task, the rows stored are those of the calls that
\* did not raise, and a job in which nothing but the sink raised ends in
\* SUCCESS
C30_SinkFailureContained ==
  /\ exc # "sink"
  /\ db = RowsOf(sink)
  /\ \A i \in DOMAIN sink :
       ~sink[i].ok =>
         LET run == C30_RunOf(sink[i])
         IN \E k \in DOMAIN run :
              /\ run[k] = CallFeature(sink[i])
              /\ i + (Len(run) - k) <= Len(sink)
              /\ \A d \in 1..(Len(run) - k) :
                   CallFeature(sink[i + d]) = run[k + d]
  /\ (pc = "done" /\ raised = {"sink"}) => state = "SUCCESS"

\* a job that ended in SUCCESS although the call for the first feature of a
\* run raised: the call for the next feature was made and its row is stored,
\* the row of the first is not
C30_Witness ==
  /\ pc = "done"
  /\ state = "SUCCESS"
  /\ \E i \in DOMAIN sink :
       /\ ~sink[i].ok
       /\ i < Len(sink)
       /\ sink[i + 1].ok
       /\ CallFeature(sink[i + 1]).kind = CallFeature(sink[i]).kind
       /\ CallFeature(sink[i + 1]).coords = CallFeature(sink[i]).coords
       /\ Len(db) = Len(sink) - 1

====
